---- MODULE Spec2Model ----
(***************************************************************************)
(* The video job record, the background polling task started by the        *)
(* generation and remix endpoints, the progress endpoint, the manual       *)
(* status check and the database retry wrapper of sora-2-ui.               *)
(*                                                                         *)
(* One job and its record are modelled.  Every await of a handler that     *)
(* separates two accesses to shared state (the videos table, the storage   *)
(* bucket) is a step of its own, so that handlers interleave as they do    *)
(* on the server.  The provider, the storage bucket and the database are   *)
(* the environment: each of their answers is a nondeterministic choice.    *)
(***************************************************************************)
EXTENDS Integers, Sequences, FiniteSets, TLC

VARIABLES
    videos,        \* the videos table: record id -> row
    storage,       \* the storage bucket: the set of uploaded object paths
    uploads,       \* number of uploads accepted so far (the Date.now() of file names)
    urlWrites,     \* history: number of applied updates that carried video_url
    poll,          \* the background polling task of the record
    progress,      \* a call of GET /api/video-progress
    manual,        \* a call of POST /api/check-video-status
    post,          \* the response of the generation / remix endpoint
    retry,         \* a call of executeWithRetry
    deletion,      \* a call of DELETE /api/delete-video
    request,       \* history: what the last POST was given and was answered
    auth,          \* the browser: the auth context and the page it shows
    client,        \* the browser: the video list and the polling hook
    remix,         \* POST /api/remix-video: the provider setting and the last call
    fetch,         \* POST /api/fetch-video: the video_id column and the calls
    page           \* the browser: the page's list with every field of its entries

vars == <<videos, storage, uploads, urlWrites, poll, progress, manual, post, retry, deletion, request, auth, client, remix, fetch, page>>

-----------------------------------------------------------------------------
(* Bounds of the model *)

\* uploads to the bucket in one behaviour
MaxUploads == 2
\* the loop bound maxAttempts as used when the task runs beside other handlers
AttemptCap == 2
\* the rows the table may hold in the runs of the manual fetch
MaxRows == 3
\* the attempts left to the task in the runs with every writer and deletions
LastAttempts == 1

-----------------------------------------------------------------------------
(* Values *)

RecordId == "rec_1"
\* a second record of the table, of an earlier job
OtherId == "rec_2"
JobId == "video_1"

EmptyTable == [id \in {} |-> 0]

\* the row inserted by the generation and remix endpoints
NewRow ==
    [status |-> "in_progress", video_url |-> "", error_message |-> ""]

Variants == {"provider", "remix", "openai"}

maxAttemptsProvider == 150
maxAttemptsRemix == 60
maxAttemptsOpenAI == 600

maxAttempts(variant) ==
    CASE variant = "provider" -> maxAttemptsProvider
      [] variant = "remix" -> maxAttemptsRemix
      [] variant = "openai" -> maxAttemptsOpenAI

Capped(n) == IF n > AttemptCap THEN AttemptCap ELSE n

NoResponse == 0
HttpOk == 200
BadRequest == 400
NotFound == 404
ServerError == 500
\* the status of a non-OK answer of the provider, passed on to the caller
ProviderErrorStatus == 429

-----------------------------------------------------------------------------
(* JavaScript values of the provider's error fields *)

Undefined == [t |-> "undefined", s |-> "", code |-> "", message |-> ""]
Str(text) == [t |-> "string", s |-> text, code |-> "", message |-> ""]
Obj(code, message) == [t |-> "object", s |-> "", code |-> code, message |-> message]

\* a || b chooses a when a is truthy: an object always is, a string when not empty
Truthy(v) == v.t = "object" \/ (v.t = "string" /\ v.s # "")

OrElse(a, b) == IF Truthy(a) THEN a ELSE b

NoDetailsText == "No error details provided"

\* errorDetails = statusData.error || statusData.failure_reason || "No error details provided"
ErrorDetails(error, failure_reason) ==
    OrElse(error, OrElse(failure_reason, Str(NoDetailsText)))

\* a formatting that stores the details as they are: an object has no text
RawMessage(error, failure_reason) == ErrorDetails(error, failure_reason).s

\* typeof errorDetails === 'object' ? `${code || 'unknown_error'}: ${message || ...}` : String(errorDetails)
ErrorMessage(error, failure_reason) ==
    LET d == ErrorDetails(error, failure_reason)
    IN  IF d.t = "object"
        THEN (IF d.code # "" THEN d.code ELSE "unknown_error") \o ": " \o
             (IF d.message # "" THEN d.message ELSE "Unknown error occurred")
        ELSE d.s

-----------------------------------------------------------------------------
(* The provider's answers *)

\* the error and failure_reason fields of an answer that reports a failed job
FailureDetails ==
    {<<Undefined, Undefined>>,
     <<Str(""), Str("content policy")>>,
     <<Str("render failed"), Str("content policy")>>,
     <<Obj("", ""), Undefined>>,
     <<Obj("moderation_blocked", "Blocked by moderation"), Undefined>>}

\* fetch rejected, or the body could not be parsed
Rejected ==
    [kind |-> "reject", ok |-> FALSE, status |-> "", generations |-> 0,
     error |-> Undefined, failure_reason |-> Undefined]

HttpError ==
    [kind |-> "http", ok |-> FALSE, status |-> "", generations |-> 0,
     error |-> Undefined, failure_reason |-> Undefined]

Answer(status, generations, error, failure_reason) ==
    [kind |-> "http", ok |-> TRUE, status |-> status, generations |-> generations,
     error |-> error, failure_reason |-> failure_reason]

StatusAnswers ==
    {Rejected, HttpError}
    \cup {Answer(s, 0, Undefined, Undefined) : s \in {"queued", "in_progress"}}
    \cup {Answer(s, g, Undefined, Undefined) : s \in {"succeeded", "completed"}, g \in {0, 1}}
    \cup {Answer(s, 0, d[1], d[2]) : s \in {"failed", "error"}, d \in FailureDetails}

IsSucceeded(status) == status = "succeeded" \/ status = "completed"

IsFailed(status) == status = "failed" \/ status = "error"

\* the branch of the loop an answer takes
AnswerKind(ans) ==
    IF ans.kind = "reject" THEN "reject"
    ELSE IF ~ans.ok THEN "not_ok"
    ELSE IF IsSucceeded(ans.status) THEN "succeeded"
    ELSE IF IsFailed(ans.status) THEN "failed"
    ELSE "pending"

ContentAnswers == {"ok", "not_ok", "reject"}

DbOutcomes == {"ok", "error"}

-----------------------------------------------------------------------------
(* The videos table *)

\* a write that creates the row it does not find
Upsert(table, id, updates) ==
    [r \in DOMAIN table \cup {id} |->
        [f \in DOMAIN NewRow |->
            IF f \in DOMAIN updates THEN updates[f]
            ELSE IF r \in DOMAIN table THEN table[r][f] ELSE NewRow[f]]]

\* supabase.from("videos").update(updates).eq("id", recordId)
ApplyUpdate(table, id, updates) ==
    IF id \in DOMAIN table
    THEN [table EXCEPT ![id] =
            [f \in DOMAIN @ |-> IF f \in DOMAIN updates THEN updates[f] ELSE @[f]]]
    ELSE table

\* the table after a write whose outcome the database decides
Written(table, id, updates, outcome) ==
    IF outcome = "ok" THEN ApplyUpdate(table, id, updates) ELSE table

\* updateVideoStatus throws when the query fails or .single() finds no row
UpdateThrows(table, id, outcome) == outcome # "ok" \/ id \notin DOMAIN table

\* .single() fails when the query fails or finds no row
ReadFails(table, id, outcome) == outcome # "ok" \/ id \notin DOMAIN table

CarriesUrl(table, id, updates, outcome) ==
    outcome = "ok" /\ id \in DOMAIN table /\ "video_url" \in DOMAIN updates

CountUrlWrite(n, table, id, updates, outcome) ==
    IF CarriesUrl(table, id, updates, outcome) THEN n + 1 ELSE n

\* the payloads of the updates the handlers issue
FailedUpdate == [status |-> "failed"]

FailedWithMessage(errorMessage) ==
    [status |-> "failed", error_message |-> errorMessage]

CompletedUpdate(videoUrl) == [video_url |-> videoUrl, status |-> "completed"]

CompletedNoUrl == [status |-> "completed"]

\* a write to the record: the table and the history of its video_url
WriteRecord(updates, outcome) ==
    /\ videos' = Written(videos, RecordId, updates, outcome)
    /\ urlWrites' = CountUrlWrite(urlWrites, videos, RecordId, updates, outcome)

-----------------------------------------------------------------------------
(* The storage bucket *)

\* filename = `${videoId}-${timestamp}.mp4`, filePath = `videos/${filename}`
FilePath(videoId, timestamp) ==
    "videos/" \o videoId \o "-" \o ToString(timestamp) \o ".mp4"

\* getPublicUrl(data.path).publicUrl
PublicUrl(path) == "/storage/v1/object/public/videos/" \o path

\* `data:video/mp4;base64,${base64Video}`
DataUrl == "data:video/mp4;base64," \o "AAAA"

UploadOutcomes == {"ok", "error"}

\* throw new Error(`Failed to upload video: ${error.message}`)
StorageErrorMessage == "Failed to upload video: " \o "Bucket not found"

\* the message of the error an update of the table fails with
DatabaseErrorMessage == "connection terminated unexpectedly"

\* error_message: `Failed to upload video: ${uploadError.message}`
UploadFailureMessage(message) == "Failed to upload video: " \o message

-----------------------------------------------------------------------------
(* pollAndUpdateVideo: the background polling task *)

\* the task before the endpoint has started it
IdleTask ==
    [pc |-> "idle", variant |-> "provider", maxAttempts |-> 0, attempts |-> 0,
     completed |-> FALSE, waits |-> 0, elapsed |-> 0, requests |-> 0, heard |-> {},
     exit |-> "", videoUrl |-> "", errorMessage |-> "", escaped |-> FALSE]

\* the task as pollAndUpdateVideo(jobId, recordId, model) leaves it at its first await
StartedTask(variant, limit) ==
    [IdleTask EXCEPT !.pc = "loop", !.variant = variant, !.maxAttempts = limit]

\* the task after its return: its locals are gone, its history stays
Returned(task, reason) ==
    [task EXCEPT !.pc = "done", !.exit = reason, !.videoUrl = "", !.errorMessage = ""]

\* a loop condition that lets one more iteration through
LoopOvershoots(completed, attempts, limit) == ~completed /\ attempts <= limit

\* while (!completed && attempts < maxAttempts)
LoopContinues(completed, attempts, limit) == ~completed /\ attempts < limit

\* the interval of the loop, in ms
pollInterval == 5000

\* a wait that grows with the attempts
BackoffWait(attempts) == pollInterval * (attempts + 1)

\* await new Promise((resolve) => setTimeout(resolve, 5000))
PollWait(attempts) == pollInterval

\* a counter that advances by two
SkipAttempt(attempts) == attempts + 2

\* attempts++
NextAttempt(attempts) == attempts + 1

\* the variants that wrap their writes in updateVideoStatus and upload to storage
UsesStorage(variant) == variant \in {"provider", "remix"}

\* a task that downloads without the final status lookup
SkipsFinalLookup(variant) == "content"

\* where the task goes once the loop has seen the job succeed
AfterSuccess(variant) == IF UsesStorage(variant) THEN "final" ELSE "content"

\* where the task goes when the loop sees the job failed, after its write: return
AfterFailure == "done"

\* where an exception thrown inside the task's outer try block lands
OnThrow == "catch"

\* a catch block whose own write is not wrapped: its exception leaves the task
Propagates(threw) == threw

\* the outer catch wraps its own write in try/catch: nothing leaves the task
CatchEscapes(threw) == FALSE

\* an update that puts the record back to in_progress
ResetUpdate == [status |-> "in_progress"]

\* an update that stores a message with the timeout
TimeoutWithMessage == [status |-> "failed", error_message |-> "Timeout"]

\* the update issued when the attempts are exhausted
TimeoutUpdate == FailedUpdate

\* the update issued when the provider reports the job failed
ProviderFailedUpdate(error, failure_reason) ==
    FailedWithMessage(ErrorMessage(error, failure_reason))

\* one iteration of the loop: the 5 s wait, the status request and what follows
PollIterate ==
    /\ poll.pc = "loop"
    /\ LoopContinues(poll.completed, poll.attempts, poll.maxAttempts)
    /\ \E ans \in StatusAnswers, outcome \in DbOutcomes :
         LET asked == [poll EXCEPT !.waits = @ + 1,
                                   !.elapsed = @ + PollWait(poll.attempts),
                                   !.requests = @ + 1,
                                   !.heard = @ \cup {AnswerKind(ans)}]
         IN  CASE ans.kind = "reject" ->
                    /\ poll' = [asked EXCEPT !.pc = OnThrow]
                    /\ UNCHANGED <<videos, urlWrites>>
               [] ans.kind = "http" /\ ~ans.ok ->
                    /\ poll' = [asked EXCEPT !.attempts = NextAttempt(@)]
                    /\ UNCHANGED <<videos, urlWrites>>
               [] ans.kind = "http" /\ ans.ok /\ IsSucceeded(ans.status) ->
                    /\ poll' = [asked EXCEPT !.completed = TRUE,
                                             !.pc = AfterSuccess(poll.variant)]
                    /\ UNCHANGED <<videos, urlWrites>>
               [] ans.kind = "http" /\ ans.ok /\ IsFailed(ans.status) ->
                    /\ WriteRecord(ProviderFailedUpdate(ans.error, ans.failure_reason),
                                   outcome)
                    /\ poll' = [Returned(asked, "provider_failed") EXCEPT
                                  !.pc = AfterFailure]
               [] OTHER ->
                    /\ poll' = [asked EXCEPT !.attempts = NextAttempt(@)]
                    /\ UNCHANGED <<videos, urlWrites>>
    /\ UNCHANGED <<storage, uploads, progress, manual, post, retry, deletion, request, auth, client, remix, fetch, page>>

\* if (!completed): the attempts are exhausted
PollTimeout ==
    /\ poll.pc = "loop"
    /\ ~LoopContinues(poll.completed, poll.attempts, poll.maxAttempts)
    /\ ~poll.completed
    /\ \E outcome \in DbOutcomes :
         /\ WriteRecord(TimeoutUpdate, outcome)
         /\ poll' = Returned(poll, "timeout")
    /\ UNCHANGED <<storage, uploads, progress, manual, post, retry, deletion, request, auth, client, remix, fetch, page>>

\* a write of status failed that is not wrapped in try/catch (updateVideoStatus
\* variants), or whose error is only logged (the variant that updates directly)
PollFail(task, reason, outcome) ==
    /\ WriteRecord(FailedUpdate, outcome)
    /\ poll' = IF UsesStorage(task.variant) /\ UpdateThrows(videos, RecordId, outcome)
               THEN [task EXCEPT !.pc = OnThrow, !.exit = reason]
               ELSE Returned(task, reason)

\* the second status request, made to read the generations array
PollFinalStatus ==
    /\ poll.pc = "final"
    /\ \E ans \in StatusAnswers, outcome \in DbOutcomes :
         LET asked == [poll EXCEPT !.requests = @ + 1]
         IN  CASE ans.kind = "reject" ->
                    /\ poll' = [asked EXCEPT !.pc = OnThrow]
                    /\ UNCHANGED <<videos, urlWrites>>
               [] ans.kind = "http" /\ ~ans.ok ->
                    PollFail(asked, "final_failed", outcome)
               [] ans.generations = 0 ->
                    PollFail(asked, "no_generations", outcome)
               [] OTHER ->
                    /\ poll' = [asked EXCEPT !.pc = "content"]
                    /\ UNCHANGED <<videos, urlWrites>>
    /\ UNCHANGED <<storage, uploads, progress, manual, post, retry, deletion, request, auth, client, remix, fetch, page>>

\* the download of the content; the variant without storage writes the data URL here
PollContent ==
    /\ poll.pc = "content"
    /\ \E ans \in ContentAnswers, outcome \in DbOutcomes :
         CASE ans = "reject" ->
                /\ poll' = [poll EXCEPT !.pc = OnThrow]
                /\ UNCHANGED <<videos, urlWrites>>
           [] ans = "not_ok" ->
                \* here the write is inside try/catch in every variant
                /\ WriteRecord(FailedUpdate, outcome)
                /\ poll' = Returned(poll, "download_failed")
           [] ans = "ok" /\ UsesStorage(poll.variant) ->
                /\ poll' = [poll EXCEPT !.pc = "upload"]
                /\ UNCHANGED <<videos, urlWrites>>
           [] OTHER ->
                /\ WriteRecord(CompletedUpdate(DataUrl), outcome)
                /\ poll' = Returned(poll, IF outcome = "ok" THEN "stored"
                                          ELSE "write_failed")
    /\ UNCHANGED <<storage, uploads, progress, manual, post, retry, deletion, request, auth, client, remix, fetch, page>>

\* uploadVideoToStorage(videoBlob, jobId)
PollUpload ==
    /\ poll.pc = "upload"
    /\ \E outcome \in UploadOutcomes :
         IF outcome = "ok" /\ uploads < MaxUploads
         THEN LET path == FilePath(JobId, uploads + 1)
              IN  /\ storage' = storage \cup {path}
                  /\ uploads' = uploads + 1
                  /\ poll' = [poll EXCEPT !.pc = "write", !.videoUrl = PublicUrl(path)]
         ELSE /\ poll' = [poll EXCEPT !.pc = "uploadCatch",
                                      !.errorMessage = StorageErrorMessage]
              /\ UNCHANGED <<storage, uploads>>
    /\ UNCHANGED <<videos, urlWrites, progress, manual, post, retry, deletion, request, auth, client, remix, fetch, page>>

\* updateVideoStatus(recordId, { video_url: videoUrl, status: "completed" })
PollWriteCompleted ==
    /\ poll.pc = "write"
    /\ \E outcome \in DbOutcomes :
         /\ WriteRecord(CompletedUpdate(poll.videoUrl), outcome)
         /\ poll' = IF UpdateThrows(videos, RecordId, outcome)
                    THEN [poll EXCEPT !.pc = "uploadCatch",
                                      !.errorMessage = DatabaseErrorMessage]
                    ELSE Returned(poll, "stored")
    /\ UNCHANGED <<storage, uploads, progress, manual, post, retry, deletion, request, auth, client, remix, fetch, page>>

\* catch (uploadError): the write of status failed with the upload's message
PollUploadCatch ==
    /\ poll.pc = "uploadCatch"
    /\ \E outcome \in DbOutcomes :
         /\ WriteRecord(FailedWithMessage(UploadFailureMessage(poll.errorMessage)),
                        outcome)
         /\ poll' = IF UpdateThrows(videos, RecordId, outcome)
                    THEN [poll EXCEPT !.pc = OnThrow, !.exit = "upload_failed"]
                    ELSE Returned(poll, "upload_failed")
    /\ UNCHANGED <<storage, uploads, progress, manual, post, retry, deletion, request, auth, client, remix, fetch, page>>

\* the outer catch: one more attempt to mark the record failed
PollCatch ==
    /\ poll.pc = "catch"
    /\ \E outcome \in DbOutcomes :
         /\ WriteRecord(FailedUpdate, outcome)
         /\ poll' = [Returned(poll, IF poll.exit = "" THEN "exception" ELSE poll.exit)
                       EXCEPT !.escaped =
                                CatchEscapes(UpdateThrows(videos, RecordId, outcome))]
    /\ UNCHANGED <<storage, uploads, progress, manual, post, retry, deletion, request, auth, client, remix, fetch, page>>

PollNext ==
    \/ PollIterate
    \/ PollTimeout
    \/ PollFinalStatus
    \/ PollContent
    \/ PollUpload
    \/ PollWriteCompleted
    \/ PollUploadCatch
    \/ PollCatch

-----------------------------------------------------------------------------
(* POST of the generation and remix endpoints *)

ProviderReplies == {"job", "no_id", "not_ok", "reject"}

\* the response of the endpoint, decided before the task's first status request
PostResponse(promptOk, answer, insert) ==
    IF ~promptOk THEN BadRequest
    ELSE IF answer = "not_ok" THEN ProviderErrorStatus
    ELSE IF answer = "reject" \/ answer = "no_id" THEN ServerError
    ELSE IF insert # "ok" THEN ServerError
    ELSE HttpOk

NoRequest == [promptOk |-> FALSE, answer |-> "", insert |-> ""]

\* the request behind a record that exists
Accepted == [promptOk |-> TRUE, answer |-> "job", insert |-> "ok"]

\* an endpoint that inserts the row before it asks the provider
CreatedBeforeAnswer(promptOk, answer, insert) == promptOk /\ insert = "ok"

\* the insert is reached past the returns for a missing prompt, a non-OK answer
\* and a missing id; the task is started past the return for a failed insert
RecordCreated(promptOk, answer, insert) ==
    promptOk /\ answer = "job" /\ insert = "ok"

\* the provider is asked, the row is inserted and the task is started without await
GenerateVideo ==
    /\ poll.pc = "idle"
    /\ RecordId \notin DOMAIN videos
    /\ \E v \in Variants, promptOk \in BOOLEAN, answer \in ProviderReplies,
          insert \in DbOutcomes :
         /\ post' = PostResponse(promptOk, answer, insert)
         /\ request' = [promptOk |-> promptOk, answer |-> answer, insert |-> insert]
         /\ IF RecordCreated(promptOk, answer, insert)
            THEN /\ videos' = [id \in {RecordId} |-> NewRow]
                 /\ poll' = StartedTask(v, Capped(maxAttempts(v)))
            ELSE UNCHANGED <<videos, poll>>
    /\ UNCHANGED <<storage, uploads, urlWrites, progress, manual, retry, deletion, auth, client, remix, fetch, page>>

-----------------------------------------------------------------------------
(* POST /api/remix-video *)

\* the values AI_PROVIDER may have in the environment; "" is unset
ProviderEnvValues == {"", "openai", "azure", "Azure"}

\* const AI_PROVIDER = process.env.AI_PROVIDER || "openai"
getCurrentProvider(env) == IF env = "" THEN "openai" ELSE env

\* the endpoint before its first request, in a process started with env
IdleRemix(env) ==
    [provider |-> getCurrentProvider(env), parsed |-> FALSE, response |-> NoResponse,
     asked |-> FALSE, inserted |-> FALSE]

\* an endpoint that sends the remix request whatever the provider is
SupportedAnywhere(provider) == TRUE

\* if (getCurrentProvider() === "azure") return 400
RemixSupported(provider) == provider # "azure"

\* the response of the remix endpoint
RemixResponse(provider, parsed, promptOk, inputGiven, answer, insert) ==
    IF ~parsed THEN ServerError
    ELSE IF ~promptOk \/ ~inputGiven THEN BadRequest
    ELSE IF ~RemixSupported(provider) THEN BadRequest
    ELSE PostResponse(promptOk, answer, insert)

\* the whole handler: the body is parsed, the prompt, the input video id and the
\* provider are checked, the remix is requested, the row is inserted and the
\* task is started without await
RemixVideo ==
    /\ poll.pc = "idle"
    /\ RecordId \notin DOMAIN videos
    /\ \E parsed \in BOOLEAN, promptOk \in BOOLEAN, inputGiven \in BOOLEAN,
          answer \in ProviderReplies, insert \in DbOutcomes :
         LET reaches == parsed /\ promptOk /\ inputGiven
                        /\ RemixSupported(remix.provider)
             created == reaches /\ RecordCreated(promptOk, answer, insert)
         IN  /\ remix' = [remix EXCEPT
                            !.parsed = parsed,
                            !.response = RemixResponse(remix.provider, parsed,
                                            promptOk, inputGiven, answer, insert),
                            !.asked = reaches,
                            !.inserted = created]
             /\ post' = remix'.response
             /\ IF created
                THEN /\ videos' = [id \in {RecordId} |-> NewRow]
                     /\ poll' = StartedTask("remix", Capped(maxAttempts("remix")))
                     /\ request' = Accepted
                ELSE UNCHANGED <<videos, poll, request>>
    /\ UNCHANGED <<storage, uploads, urlWrites, progress, manual, retry, deletion, auth, client, fetch, page>>

-----------------------------------------------------------------------------
(* POST /api/fetch-video: a finished job of the provider is stored by its id *)

OtherJobId == "video_2"

JobIds == {JobId, OtherJobId}

\* the calls of the endpoint that may run at the same time
Callers == {1, 2}

\* existingVideo when the select gave no row
NoRow == [id |-> 0, video_id |-> ""]

IdleCall ==
    [pc |-> "idle", videoId |-> "", existing |-> NoRow, asked |-> FALSE,
     inserted |-> "", response |-> NoResponse]

\* the rows of the table with their video_id column, and the calls
IdleFetch == [rows |-> {}, calls |-> [c \in Callers |-> IdleCall]]

\* what the metadata request may bring
MetadataAnswers == {"reject", "not_ok", "not_ready", "no_generations", "ready"}

\* .select().eq("video_id", videoId).single(): the row, when there is exactly one
\* and the select did not fail
SelectSingle(rows, videoId, outcome) ==
    LET found == {r \in rows : r.video_id = videoId}
    IN  IF outcome = "ok" /\ Cardinality(found) = 1
        THEN CHOOSE r \in found : TRUE
        ELSE NoRow

\* a table without the constraint on video_id
Unconstrained(rows, videoId) == TRUE

\* video_id text UNIQUE
UniqueVideoId(rows, videoId) == \A r \in rows : r.video_id # videoId

\* insert(...): id uuid DEFAULT gen_random_uuid()
InsertRow(rows, videoId) ==
    rows \cup {[id |-> Cardinality(rows) + 1, video_id |-> videoId]}

\* the call returns
Answered(call, code) == [call EXCEPT !.pc = "responded", !.response = code]

\* the check of the id and the select of an existing record
FetchSelect(c) ==
    /\ fetch.calls[c].pc = "idle"
    /\ \E idGiven \in BOOLEAN, videoId \in JobIds, outcome \in DbOutcomes :
         LET existing == SelectSingle(fetch.rows, videoId, outcome)
             call == [IdleCall EXCEPT !.videoId = videoId, !.existing = existing]
         IN  fetch' = [fetch EXCEPT !.calls[c] =
                          IF ~idGiven THEN Answered(IdleCall, BadRequest)
                          ELSE IF existing # NoRow THEN Answered(call, HttpOk)
                          ELSE [call EXCEPT !.pc = "metadata"]]
    /\ UNCHANGED <<videos, storage, uploads, urlWrites, poll, progress, manual,
                   post, retry, deletion, request, auth, client, remix, page>>

\* the metadata request to the provider and the returns on its answer
FetchMetadata(c) ==
    /\ fetch.calls[c].pc = "metadata"
    /\ \E ans \in MetadataAnswers :
         LET call == [fetch.calls[c] EXCEPT !.asked = TRUE]
         IN  fetch' = [fetch EXCEPT !.calls[c] =
                          CASE ans = "reject" -> Answered(call, ServerError)
                            [] ans = "not_ok" -> Answered(call, ProviderErrorStatus)
                            [] ans = "not_ready" -> Answered(call, BadRequest)
                            [] ans = "no_generations" -> Answered(call, BadRequest)
                            [] OTHER -> [call EXCEPT !.pc = "content"]]
    /\ UNCHANGED <<videos, storage, uploads, urlWrites, poll, progress, manual,
                   post, retry, deletion, request, auth, client, remix, page>>

\* the download of the content
FetchContent(c) ==
    /\ fetch.calls[c].pc = "content"
    /\ \E ans \in ContentAnswers :
         fetch' = [fetch EXCEPT !.calls[c] =
                      IF ans = "ok" THEN [@ EXCEPT !.pc = "upload"]
                      ELSE Answered(@, ServerError)]
    /\ UNCHANGED <<videos, storage, uploads, urlWrites, poll, progress, manual,
                   post, retry, deletion, request, auth, client, remix, page>>

\* uploadVideoToStorage(videoBlob, videoId); its exception ends the call with 500
FetchUpload(c) ==
    /\ fetch.calls[c].pc = "upload"
    /\ \E outcome \in UploadOutcomes :
         IF outcome = "ok" /\ uploads < MaxUploads
         THEN /\ storage' = storage \cup {FilePath(fetch.calls[c].videoId, uploads + 1)}
              /\ uploads' = uploads + 1
              /\ fetch' = [fetch EXCEPT !.calls[c].pc = "insert"]
         ELSE /\ fetch' = [fetch EXCEPT !.calls[c] = Answered(@, ServerError)]
              /\ UNCHANGED <<storage, uploads>>
    /\ UNCHANGED <<videos, urlWrites, poll, progress, manual,
                   post, retry, deletion, request, auth, client, remix, page>>

\* the insert of the record; the table refuses a second row with the video_id
FetchInsert(c) ==
    /\ fetch.calls[c].pc = "insert"
    /\ Cardinality(fetch.rows) < MaxRows
    /\ \E outcome \in DbOutcomes :
         LET videoId == fetch.calls[c].videoId
         IN  fetch' =
                IF outcome # "ok"
                THEN [fetch EXCEPT !.calls[c] =
                         Answered([@ EXCEPT !.inserted = "error"], ServerError)]
                ELSE IF ~UniqueVideoId(fetch.rows, videoId)
                THEN [fetch EXCEPT !.calls[c] =
                         Answered([@ EXCEPT !.inserted = "conflict"], ServerError)]
                ELSE [fetch EXCEPT !.rows = InsertRow(@, videoId),
                                   !.calls[c] =
                         Answered([@ EXCEPT !.inserted = "ok"], HttpOk)]
    /\ UNCHANGED <<videos, storage, uploads, urlWrites, poll, progress, manual,
                   post, retry, deletion, request, auth, client, remix, page>>

\* the client has the response; the caller may call again
FetchReturn(c) ==
    /\ fetch.calls[c].pc = "responded"
    /\ fetch' = [fetch EXCEPT !.calls[c] = IdleCall]
    /\ UNCHANGED <<videos, storage, uploads, urlWrites, poll, progress, manual,
                   post, retry, deletion, request, auth, client, remix, page>>

\* the insert of the generation and remix endpoints for the job the provider
\* created
InsertGenerated ==
    /\ Cardinality(fetch.rows) < MaxRows
    /\ \E videoId \in JobIds :
         /\ UniqueVideoId(fetch.rows, videoId)
         /\ fetch' = [fetch EXCEPT !.rows = InsertRow(@, videoId)]
    /\ UNCHANGED <<videos, storage, uploads, urlWrites, poll, progress, manual,
                   post, retry, deletion, request, auth, client, remix, page>>

FetchVideo(c) ==
    \/ FetchSelect(c)
    \/ FetchMetadata(c)
    \/ FetchContent(c)
    \/ FetchUpload(c)
    \/ FetchInsert(c)
    \/ FetchReturn(c)

FetchNext ==
    \/ \E c \in Callers : FetchVideo(c)
    \/ InsertGenerated

-----------------------------------------------------------------------------
(* GET /api/video-progress *)

NoReply == [code |-> NoResponse, status |-> ""]

Reply(code, status) == [code |-> code, status |-> status]

ProgressVariants == {"storage", "base64"}

IdleProgress ==
    [pc |-> "idle", variant |-> "storage", video |-> NewRow, videoUrl |-> "",
     reply |-> NoReply]

\* return NextResponse.json(...): the call is over, its response is on its way
Responded(call, response) == [call EXCEPT !.pc = "responded", !.reply = response]

\* the closing return of the handler: the snapshot read at the start of the call
SnapshotReply(call) == Reply(HttpOk, call.video.status)

\* const video = await fetchVideoByVideoId(videoId)
ProgressFetch ==
    /\ progress.pc = "idle"
    /\ \E variant \in ProgressVariants, outcome \in DbOutcomes :
         progress' =
            IF ReadFails(videos, RecordId, outcome)
            THEN Responded(IdleProgress, Reply(ServerError, ""))
            ELSE LET call == [IdleProgress EXCEPT !.variant = variant,
                                                  !.video = videos[RecordId]]
                 IN  IF call.video.status = "in_progress"
                     THEN [call EXCEPT !.pc = "status"]
                     ELSE Responded(IdleProgress, SnapshotReply(call))
    /\ UNCHANGED <<videos, storage, uploads, urlWrites, poll, manual, post, retry, deletion, request, auth, client, remix, fetch, page>>

\* the real-time status request and the branch on its answer
ProgressStatus ==
    /\ progress.pc = "status"
    /\ \E ans \in StatusAnswers :
         progress' =
            IF ans.kind = "http" /\ ans.ok /\ IsSucceeded(ans.status)
               /\ progress.video.video_url = ""
            THEN [progress EXCEPT !.pc =
                     IF progress.variant = "storage" /\ ans.generations = 0
                     THEN "fallback" ELSE "content"]
            ELSE Responded(IdleProgress, SnapshotReply(progress))
    /\ UNCHANGED <<videos, storage, uploads, urlWrites, poll, manual, post, retry, deletion, request, auth, client, remix, fetch, page>>

\* the download of the content
ProgressContent ==
    /\ progress.pc = "content"
    /\ \E ans \in ContentAnswers :
         progress' =
            [progress EXCEPT
                !.pc = IF ans # "ok" THEN "fallback"
                       ELSE IF progress.variant = "storage" THEN "upload"
                       ELSE "write",
                !.videoUrl = IF ans = "ok" /\ progress.variant = "base64"
                             THEN DataUrl ELSE @]
    /\ UNCHANGED <<videos, storage, uploads, urlWrites, poll, manual, post, retry, deletion, request, auth, client, remix, fetch, page>>

\* uploadVideoToStorage(videoBlob, videoId)
ProgressUpload ==
    /\ progress.pc = "upload"
    /\ \E outcome \in UploadOutcomes :
         IF outcome = "ok" /\ uploads < MaxUploads
         THEN LET path == FilePath(JobId, uploads + 1)
              IN  /\ storage' = storage \cup {path}
                  /\ uploads' = uploads + 1
                  /\ progress' = [progress EXCEPT !.pc = "write",
                                                  !.videoUrl = PublicUrl(path)]
         ELSE /\ progress' = [progress EXCEPT !.pc = "fallback"]
              /\ UNCHANGED <<storage, uploads>>
    /\ UNCHANGED <<videos, urlWrites, poll, manual, post, retry, deletion, request, auth, client, remix, fetch, page>>

\* updateVideoStatus(video.id, { status: "completed", video_url: videoUrl })
ProgressWrite ==
    /\ progress.pc = "write"
    /\ \E outcome \in DbOutcomes :
         /\ WriteRecord(CompletedUpdate(progress.videoUrl), outcome)
         /\ progress' = IF UpdateThrows(videos, RecordId, outcome)
                        THEN [progress EXCEPT !.pc = "fallback", !.videoUrl = ""]
                        ELSE Responded(IdleProgress, Reply(HttpOk, "completed"))
    /\ UNCHANGED <<storage, uploads, poll, manual, post, retry, deletion, request, auth, client, remix, fetch, page>>

\* a refresh that gives up on the job
FallbackFailedUpdate == [status |-> "failed", error_message |-> "Download failed"]

\* the update of the branches commented "Update status to completed but without
\* video URL"
ProgressFallbackUpdate == CompletedNoUrl

\* when this write throws it is tried once more by catch (fetchError), or dropped
\* by catch (openaiError); the handler then returns the snapshot
ProgressFallback ==
    /\ progress.pc = "fallback"
    /\ \E outcome \in DbOutcomes :
         /\ WriteRecord(ProgressFallbackUpdate, outcome)
         /\ progress' = Responded(IdleProgress, SnapshotReply(progress))
    /\ UNCHANGED <<storage, uploads, poll, manual, post, retry, deletion, request, auth, client, remix, fetch, page>>

\* the client has the response; the next call may start
ProgressReturn ==
    /\ progress.pc = "responded"
    /\ progress' = IdleProgress
    /\ UNCHANGED <<videos, storage, uploads, urlWrites, poll, manual, post, retry, deletion, request, auth, client, remix, fetch, page>>

ProgressNext ==
    \/ ProgressFetch
    \/ ProgressStatus
    \/ ProgressContent
    \/ ProgressUpload
    \/ ProgressWrite
    \/ ProgressFallback
    \/ ProgressReturn

-----------------------------------------------------------------------------
(* POST /api/check-video-status: the manual status check *)

IdleManual ==
    [pc |-> "idle", variant |-> "storage", videoUrl |-> "", reply |-> NoReply]

\* the update the check issues when the provider reports the job failed
ManualFailedUpdate(error, failure_reason) ==
    FailedWithMessage(ErrorMessage(error, failure_reason))

\* a check that lets every record but a failed one through
ChecksUnlessFailed(status) == status # "failed"

\* if (videoRecord.status !== "in_progress") return 400
ManualChecks(status) == status = "in_progress"

\* the select of the record and the two early returns
ManualRead ==
    /\ manual.pc = "idle"
    /\ \E variant \in ProgressVariants, outcome \in DbOutcomes :
         manual' =
            IF ReadFails(videos, RecordId, outcome)
            THEN Responded(IdleManual, Reply(NotFound, ""))
            ELSE IF ~ManualChecks(videos[RecordId].status)
            THEN Responded(IdleManual, Reply(BadRequest, videos[RecordId].status))
            ELSE [IdleManual EXCEPT !.pc = "status", !.variant = variant]
    /\ UNCHANGED <<videos, storage, uploads, urlWrites, poll, progress, post, retry, deletion, request, auth, client, remix, fetch, page>>

\* the status request and the branch on its answer; the check updates the table
\* directly, and an error of the update is returned, not thrown
ManualStatus ==
    /\ manual.pc = "status"
    /\ \E ans \in StatusAnswers, outcome \in DbOutcomes :
         CASE ans.kind = "reject" ->
                /\ manual' = Responded(IdleManual, Reply(ServerError, ""))
                /\ UNCHANGED <<videos, urlWrites>>
           [] ans.kind = "http" /\ ~ans.ok ->
                /\ manual' = Responded(IdleManual, Reply(ProviderErrorStatus, ""))
                /\ UNCHANGED <<videos, urlWrites>>
           [] ans.kind = "http" /\ ans.ok /\ IsSucceeded(ans.status) ->
                /\ manual' = IF manual.variant = "storage" /\ ans.generations = 0
                             THEN Responded(IdleManual, Reply(BadRequest, ""))
                             ELSE [manual EXCEPT !.pc = "content"]
                /\ UNCHANGED <<videos, urlWrites>>
           [] ans.kind = "http" /\ ans.ok /\ IsFailed(ans.status) ->
                /\ WriteRecord(ManualFailedUpdate(ans.error, ans.failure_reason), outcome)
                /\ manual' = Responded(IdleManual,
                                IF outcome = "ok" THEN Reply(HttpOk, "failed")
                                ELSE Reply(ServerError, ""))
           [] OTHER ->
                /\ manual' = Responded(IdleManual, Reply(HttpOk, ans.status))
                /\ UNCHANGED <<videos, urlWrites>>
    /\ UNCHANGED <<storage, uploads, poll, progress, post, retry, deletion, request, auth, client, remix, fetch, page>>

\* the download of the content
ManualContent ==
    /\ manual.pc = "content"
    /\ \E ans \in ContentAnswers :
         manual' =
            CASE ans = "reject" -> Responded(IdleManual, Reply(ServerError, ""))
              [] ans = "not_ok" -> Responded(IdleManual, Reply(ProviderErrorStatus, ""))
              [] OTHER ->
                    IF manual.variant = "storage"
                    THEN [manual EXCEPT !.pc = "upload"]
                    ELSE [manual EXCEPT !.pc = "write", !.videoUrl = DataUrl]
    /\ UNCHANGED <<videos, storage, uploads, urlWrites, poll, progress, post, retry, deletion, request, auth, client, remix, fetch, page>>

\* uploadVideoToStorage(videoBlob, openaiJobId); its exception ends the call with 500
ManualUpload ==
    /\ manual.pc = "upload"
    /\ \E outcome \in UploadOutcomes :
         IF outcome = "ok" /\ uploads < MaxUploads
         THEN LET path == FilePath(JobId, uploads + 1)
              IN  /\ storage' = storage \cup {path}
                  /\ uploads' = uploads + 1
                  /\ manual' = [manual EXCEPT !.pc = "write",
                                              !.videoUrl = PublicUrl(path)]
         ELSE /\ manual' = Responded(IdleManual, Reply(ServerError, ""))
              /\ UNCHANGED <<storage, uploads>>
    /\ UNCHANGED <<videos, urlWrites, poll, progress, post, retry, deletion, request, auth, client, remix, fetch, page>>

\* update({ video_url: videoUrl, status: "completed" }).eq("id", videoId)
ManualWrite ==
    /\ manual.pc = "write"
    /\ \E outcome \in DbOutcomes :
         /\ WriteRecord(CompletedUpdate(manual.videoUrl), outcome)
         /\ manual' = Responded(IdleManual,
                         IF outcome = "ok" THEN Reply(HttpOk, "completed")
                         ELSE Reply(ServerError, ""))
    /\ UNCHANGED <<storage, uploads, poll, progress, post, retry, deletion, request, auth, client, remix, fetch, page>>

\* the client has the response; the next call may start
ManualReturn ==
    /\ manual.pc = "responded"
    /\ manual' = IdleManual
    /\ UNCHANGED <<videos, storage, uploads, urlWrites, poll, progress, post, retry, deletion, request, auth, client, remix, fetch, page>>

ManualNext ==
    \/ ManualRead
    \/ ManualStatus
    \/ ManualContent
    \/ ManualUpload
    \/ ManualWrite
    \/ ManualReturn

-----------------------------------------------------------------------------
(* DELETE /api/delete-video *)

\* pc: the handler's position; response: its last answer; deleted, requests and
\* running: whether it removed the row, and the task's request count and
\* whether its loop was running at that moment
\* id: the id of the request; swept: the count returned by the last sweep
IdleDeletion ==
    [pc |-> "idle", id |-> "", response |-> NoResponse, deleted |-> FALSE,
     requests |-> 0, running |-> FALSE, swept |-> 0]

\* the ids a delete request names
DeleteIds == {RecordId, OtherId}

\* a delete without its filter
RemoveAll(table, id) == [r \in {} |-> 0]

\* supabase.from("videos").delete().eq("id", videoId)
Remove(table, id) == [r \in DOMAIN table \ {id} |-> table[r]]

\* DELETE FROM public.videos WHERE status = 'failed' AND created_at < cutoff;
\* old is the set of records created before the cutoff
Sweep(table, old) ==
    [r \in {x \in DOMAIN table : ~(table[x].status = "failed" /\ x \in old)}
       |-> table[r]]

\* a handler that ends the task of the record it deletes
TaskCancelled(task) ==
    IF task.pc \in {"idle", "done"} THEN task ELSE Returned(task, "cancelled")

\* the handler holds no reference to the task of the record: the task is as it was
TaskAfterDelete(task) == task

\* the id is read from the query and the record is looked up
DeleteFind ==
    /\ deletion.pc = "idle"
    /\ \E idGiven \in BOOLEAN, id \in DeleteIds, outcome \in DbOutcomes :
         deletion' =
            IF ~idGiven THEN [deletion EXCEPT !.id = "", !.response = BadRequest]
            ELSE IF ReadFails(videos, id, outcome)
                 THEN [deletion EXCEPT !.id = id, !.response = NotFound]
            ELSE [deletion EXCEPT !.pc = "found", !.id = id,
                                  !.response = NoResponse]
    /\ UNCHANGED <<videos, storage, uploads, urlWrites, poll, progress, manual,
                   post, retry, request, auth, client, remix, fetch, page>>

\* the row is deleted and the handler answers
DeleteRow ==
    /\ deletion.pc = "found"
    /\ \E outcome \in DbOutcomes :
         IF outcome = "ok"
         THEN /\ videos' = Remove(videos, deletion.id)
              /\ poll' = TaskAfterDelete(poll)
              /\ deletion' =
                    IF deletion.id = RecordId /\ RecordId \in DOMAIN videos
                    THEN [deletion EXCEPT !.pc = "idle", !.response = HttpOk,
                                          !.deleted = TRUE,
                                          !.requests = poll.requests,
                                          !.running = (poll.pc = "loop")]
                    ELSE [deletion EXCEPT !.pc = "idle", !.response = HttpOk]
         ELSE /\ deletion' = [deletion EXCEPT !.pc = "idle",
                                              !.response = ServerError]
              /\ UNCHANGED <<videos, poll>>
    /\ UNCHANGED <<storage, uploads, urlWrites, progress, manual, post, retry, request, auth, client, remix, fetch, page>>

DeleteVideo ==
    \/ DeleteFind
    \/ DeleteRow

\* SELECT cleanup_old_failed_videos(days_old): the maintenance sweep
CleanupOldFailedVideos ==
    /\ \E old \in SUBSET DOMAIN videos :
         /\ videos' = Sweep(videos, old)
         /\ deletion' = [deletion EXCEPT !.swept =
                            Cardinality(DOMAIN videos) - Cardinality(DOMAIN videos')]
    /\ deletion'.swept # deletion.swept \/ videos' # videos
    /\ UNCHANGED <<storage, uploads, urlWrites, poll, progress, manual, post, retry,
                   request, auth, client, remix, fetch, page>>

-----------------------------------------------------------------------------
(* The browser: AuthProvider, the home page and the login page *)

\* the values of NEXT_PUBLIC_AUTH_ENABLED at build time
EnvValues == {"unset", "true", "false", "1"}

\* process.env.NEXT_PUBLIC_AUTH_ENABLED === 'true'
AuthEnabled(env) == env = "true"

\* what Home returns: the spinner, the login form or the main application
HomeView(authEnabled, loading, user) ==
    IF loading THEN "spinner"
    ELSE IF authEnabled /\ ~user THEN "login_form"
    ELSE "app"

\* the browser at "/": AuthProvider has user null and loading true, Home is
\* rendered and its effect has not run yet
Mounted(env, session) ==
    [env |-> env, session |-> session, page |-> "home", loading |-> TRUE,
     user |-> FALSE, sessionRead |-> FALSE, pending |-> TRUE,
     view |-> "spinner", listedAnonymous |-> FALSE, listedUser |-> FALSE,
     shownAnonymous |-> FALSE, redirected |-> FALSE]

SignedOut == Mounted("true", FALSE)

\* the state after a re-render of the page on display
Rendered(a) ==
    IF a.page = "home"
    THEN LET view == HomeView(AuthEnabled(a.env), a.loading, a.user)
         IN  [a EXCEPT !.view = view,
                       !.shownAnonymous = @ \/ (view = "app" /\ ~a.user)]
    ELSE a

\* getSession() resolves: setUser(session?.user ?? null), setLoading(false)
GetSession ==
    /\ ~auth.sessionRead
    /\ auth' = Rendered([auth EXCEPT !.sessionRead = TRUE, !.user = auth.session,
                                     !.loading = FALSE,
                                     !.pending = @ \/ auth.page = "home"])
    /\ UNCHANGED <<videos, storage, uploads, urlWrites, poll, progress, manual,
                   post, retry, deletion, request, client, remix, fetch, page>>

\* onAuthStateChange fires after a sign-in or a sign-out
AuthStateChange ==
    /\ \E session \in BOOLEAN :
         /\ session # auth.session
         /\ auth' = Rendered([auth EXCEPT !.session = session, !.user = session,
                                          !.loading = FALSE,
                                          !.pending = @ \/ auth.page = "home"])
    /\ UNCHANGED <<videos, storage, uploads, urlWrites, poll, progress, manual,
                   post, retry, deletion, request, client, remix, fetch, page>>

\* the effect of Home on [user, loading, authEnabled, router, authCheckTrigger]
HomeEffect ==
    /\ auth.page = "home"
    /\ auth.pending
    /\ auth' =
          IF ~AuthEnabled(auth.env)
          THEN [auth EXCEPT !.pending = FALSE,
                            !.listedAnonymous = @ \/ ~auth.user,
                            !.listedUser = @ \/ auth.user]
          ELSE IF ~auth.loading /\ ~auth.user
          THEN [auth EXCEPT !.pending = FALSE, !.page = "login", !.view = ""]
          ELSE IF ~auth.loading /\ auth.user
          THEN [auth EXCEPT !.pending = FALSE, !.listedUser = TRUE]
          ELSE [auth EXCEPT !.pending = FALSE]
    /\ UNCHANGED <<videos, storage, uploads, urlWrites, poll, progress, manual,
                   post, retry, deletion, request, client, remix, fetch, page>>

\* Page of /login: redirect('/') or the login form
LoginPage ==
    /\ auth.page = "login"
    /\ auth.view = ""
    /\ auth' = IF ~AuthEnabled(auth.env)
               THEN Rendered([auth EXCEPT !.page = "home", !.pending = TRUE,
                                          !.redirected = TRUE])
               ELSE [auth EXCEPT !.view = "login_form"]
    /\ UNCHANGED <<videos, storage, uploads, urlWrites, poll, progress, manual,
                   post, retry, deletion, request, client, remix, fetch, page>>

\* the user opens the other page
Navigate ==
    /\ auth.view # ""
    /\ auth' = IF auth.page = "home"
               THEN [auth EXCEPT !.page = "login", !.view = "", !.pending = FALSE]
               ELSE Rendered([auth EXCEPT !.page = "home", !.pending = TRUE])
    /\ UNCHANGED <<videos, storage, uploads, urlWrites, poll, progress, manual,
                   post, retry, deletion, request, client, remix, fetch, page>>

AuthNext ==
    \/ GetSession
    \/ AuthStateChange
    \/ HomeEffect
    \/ LoginPage
    \/ Navigate

-----------------------------------------------------------------------------
(* The browser: useVideoProgress, the hook that polls the progress endpoint *)

\* the three versions of the hook in the repository: the one that sets its
\* interval inside the effect, the one that keeps it in intervalRef and never
\* clears it in the effect's cleanup, and the one with lastFetchTimeRef that
\* clears it in the cleanup
HookVersions == {"effect", "interval_ref", "cleanup"}

VideoIds == {RecordId, OtherId}

LocalStatuses == {"in_progress", "completed", "failed"}

\* the lists the page can hold: some of the videos, each with a local status
ClientLists == UNION {[S -> LocalStatuses] : S \in SUBSET VideoIds}

NoVideos == [id \in {} |-> "in_progress"]

\* videos.filter(video => video.status === "in_progress" && video.video_id)
InProgress(list) == {id \in DOMAIN list : list[id] = "in_progress"}

\* no interval is set
NoTimer == [on |-> FALSE, videos |-> NoVideos]

\* setInterval(...): the callback closes over the list of the render it was
\* created in
Timer(list) == [on |-> TRUE, videos |-> list]

\* clearInterval(...) of the interval the hook holds, when it holds one
ClearInterval(c) ==
    IF c.timer.on THEN [c EXCEPT !.timer = NoTimer, !.live = @ - 1] ELSE c

\* setInterval(...): one more interval is active
SetInterval(c) == [c EXCEPT !.timer = Timer(c.videos), !.live = @ + 1]

\* the hook as mounted by VideoGrid with an empty list; live counts the
\* intervals of this instance that are active
MountedHook(version) ==
    [hook |-> version, videos |-> NoVideos, isPolling |-> FALSE,
     timer |-> NoTimer, inflight |-> {}, sent |-> {}, tick |-> FALSE,
     mounted |-> TRUE, live |-> 0]

\* the effect of use-video-progress.ts on [videos, fetchProgress]: its cleanup
\* clears the interval, its body fetches at once and sets a new interval
EffectSimple(c) ==
    LET ids == InProgress(c.videos)
        cleaned == ClearInterval(c)
    IN  IF ids = {} THEN cleaned
        ELSE SetInterval([cleaned EXCEPT !.inflight = @ \cup ids])

\* startPolling: setIsPolling(true), an existing interval is cleared, the
\* immediate poll, the new interval
StartPolling(c) ==
    SetInterval(ClearInterval([c EXCEPT !.isPolling = TRUE,
                                        !.inflight = @ \cup InProgress(c.videos)]))

\* stopPolling: setIsPolling(false), clearInterval
StopPolling(c) == ClearInterval([c EXCEPT !.isPolling = FALSE])

\* the effect on [videos, isPolling] of the version with intervalRef
EffectIntervalRef(c) ==
    LET ids == InProgress(c.videos)
    IN  IF ids # {} /\ ~c.isPolling THEN StartPolling(c)
        ELSE IF ids = {} /\ c.isPolling THEN StopPolling(c)
        ELSE c

\* the effect of the version whose cleanup clears the interval: the cleanup of
\* the previous run, then the body
EffectCleanup(c) == EffectIntervalRef(ClearInterval(c))

Effect(c) ==
    CASE c.hook = "effect" -> EffectSimple(c)
      [] c.hook = "interval_ref" -> EffectIntervalRef(c)
      [] c.hook = "cleanup" -> EffectCleanup(c)

\* a state update is rendered and the effect runs; when the effect changed
\* isPolling, a dependency, it runs once more
Commit(c) ==
    LET once == Effect(c)
    IN  IF once.isPolling # c.isPolling THEN Effect(once) ELSE once

\* fetchVideos or the refresh of handleVideoUpdate: setVideos(data.videos);
\* handleVideoDelete: setVideos(prev.filter(...))
SetVideos ==
    /\ client.mounted
    /\ \E list \in ClientLists :
         /\ list # client.videos
         /\ client' = Commit([client EXCEPT !.videos = list])
    /\ UNCHANGED <<videos, storage, uploads, urlWrites, poll, progress, manual,
                   post, retry, deletion, request, auth, remix, fetch, page>>

\* handleVideoGenerated: setVideos(prev => [newVideo, ...prev])
HandleVideoGenerated ==
    /\ client.mounted
    /\ \E id \in VideoIds \ DOMAIN client.videos :
         client' = Commit([client EXCEPT !.videos =
                              [v \in DOMAIN client.videos \cup {id} |->
                                  IF v = id THEN "in_progress"
                                  ELSE client.videos[v]]])
    /\ UNCHANGED <<videos, storage, uploads, urlWrites, poll, progress, manual,
                   post, retry, deletion, request, auth, remix, fetch, page>>

\* the interval callback: the in-progress videos of the list it closed over
\* are requested; the version with the cleanup stops when there are none
TimerFires ==
    /\ client.timer.on
    /\ LET ids == InProgress(client.timer.videos)
           fired == [client EXCEPT !.tick = ~@, !.sent = ids,
                                   !.inflight = @ \cup ids]
       IN  client' = IF client.hook = "cleanup" /\ ids = {}
                     THEN Commit(StopPolling(fired))
                     ELSE fired
    /\ UNCHANGED <<videos, storage, uploads, urlWrites, poll, progress, manual,
                   post, retry, deletion, request, auth, remix, fetch, page>>

\* fetchProgress settles: a response that is not in_progress goes to
\* onVideoUpdate, which maps the list; a failed request is logged
FetchProgressSettles ==
    /\ \E id \in client.inflight, ok \in BOOLEAN, status \in LocalStatuses :
         LET settled == [client EXCEPT !.inflight = @ \ {id}, !.sent = @ \ {id}]
         IN  client' =
                IF ok /\ status # "in_progress" /\ client.mounted
                THEN Commit([settled EXCEPT !.videos =
                                [v \in DOMAIN client.videos |->
                                    IF v = id THEN status ELSE client.videos[v]]])
                ELSE settled
    /\ UNCHANGED <<videos, storage, uploads, urlWrites, poll, progress, manual,
                   post, retry, deletion, request, auth, remix, fetch, page>>

ClientNext ==
    \/ SetVideos
    \/ HandleVideoGenerated
    \/ TimerFires
    \/ FetchProgressSettles

\* the component using the hook is unmounted: the cleanup of the effect runs.
\* It clears the interval in use-video-progress.ts and in the version with
\* lastFetchTimeRef; in the version with intervalRef it only logs
Unmount ==
    /\ client.mounted
    /\ client' = [(IF client.hook = "interval_ref" THEN client
                             ELSE ClearInterval(client))
                    EXCEPT !.mounted = FALSE]
    /\ UNCHANGED <<videos, storage, uploads, urlWrites, poll, progress, manual,
                   post, retry, deletion, request, auth, remix, fetch, page>>

-----------------------------------------------------------------------------
(* The browser: the page's list and handleVideoUpdate *)

\* the page before its list is loaded
NoPage == [videos |-> EmptyTable, rows |-> EmptyTable, reported |-> "",
           tick |-> FALSE, refresh |-> FALSE]

\* a row of the table as GET /api/videos returns it
VideoRow(id, prompt, model, creation_type, created_at) ==
    [id |-> id, prompt |-> prompt, video_url |-> "", video_id |-> "job_" \o id,
     model |-> model, status |-> "in_progress", error_message |-> "",
     creation_type |-> creation_type, created_at |-> created_at]

\* the fields the job's end changes in the table
JobEndings ==
    {[status |-> "completed", video_url |-> PublicUrl(FilePath(JobId, 1)),
      error_message |-> ""],
     [status |-> "completed", video_url |-> "", error_message |-> ""],
     [status |-> "failed", video_url |-> "", error_message |-> "Timeout"]}

\* the body of the progress endpoint's answer for a row, sent at time now
ProgressData(row, now) ==
    [status |-> row.status, error_message |-> row.error_message,
     video_url |-> row.video_url, updated_at |-> now]

\* the time of the progress answers, later than every created_at
Now == 9

\* const updatedVideo: Video = { id, prompt: "", video_url, status,
\* error_message, created_at: data.updated_at }
UpdatedVideo(recordId, data) ==
    [id |-> recordId, prompt |-> "", video_url |-> data.video_url,
     status |-> data.status, error_message |-> data.error_message,
     created_at |-> data.updated_at]

\* { ...video, ...updatedVideo }
Spread(video, updatedVideo) ==
    [f \in DOMAIN video \cup DOMAIN updatedVideo |->
        IF f \in DOMAIN updatedVideo THEN updatedVideo[f] ELSE video[f]]

\* prev.map(video => video.id === updatedVideo.id ? {...video, ...updatedVideo} : video)
MapUpdated(list, updatedVideo) ==
    [r \in DOMAIN list |->
        IF list[r].id = updatedVideo.id THEN Spread(list[r], updatedVideo)
        ELSE list[r]]

\* isCompleted || isFailed
ShouldRefresh(updatedVideo) ==
    \/ updatedVideo.status = "completed" /\ updatedVideo.video_url # ""
    \/ updatedVideo.status = "failed"

\* the polling task ends the job of a row
JobEnds ==
    /\ \E id \in DOMAIN page.rows, ending \in JobEndings :
         /\ page.rows[id].status = "in_progress"
         /\ page' = [page EXCEPT !.rows[id] = Spread(@, ending)]
    /\ UNCHANGED <<videos, storage, uploads, urlWrites, poll, progress, manual,
                   post, retry, deletion, request, auth, client, remix, fetch>>

\* fetchProgress has a terminal answer for a video that is in progress in the
\* list: onVideoUpdate(updatedVideo), the immediate setVideos of handleVideoUpdate
HandleVideoUpdate ==
    /\ \E id \in DOMAIN page.videos :
         /\ page.videos[id].status = "in_progress"
         /\ page.rows[id].status # "in_progress"
         /\ LET updatedVideo == UpdatedVideo(id, ProgressData(page.rows[id], Now))
            IN  page' = [page EXCEPT !.videos = MapUpdated(@, updatedVideo),
                                     !.reported = id,
                                     !.tick = ~@,
                                     !.refresh = ShouldRefresh(updatedVideo)]
    /\ UNCHANGED <<videos, storage, uploads, urlWrites, poll, progress, manual,
                   post, retry, deletion, request, auth, client, remix, fetch>>

\* the refresh of handleVideoUpdate settles: setVideos(data.videos) when the
\* response is ok, nothing otherwise
RefreshSettles ==
    /\ page.refresh
    /\ \E ok \in BOOLEAN :
         page' = [page EXCEPT !.refresh = FALSE,
                              !.videos = IF ok THEN page.rows ELSE @]
    /\ UNCHANGED <<videos, storage, uploads, urlWrites, poll, progress, manual,
                   post, retry, deletion, request, auth, client, remix, fetch>>

PageNext ==
    \/ JobEnds
    \/ HandleVideoUpdate
    \/ RefreshSettles

-----------------------------------------------------------------------------
(* executeWithRetry: the retry wrapper of the database calls *)

\* DATABASE_CONFIG
queryTimeout == 30000
maxRetries == 3
retryDelay == 1000
retryBackoffMultiplier == 2

\* the largest retries option a caller passes
MaxRetriesOption == 4

RETRYABLE_ERROR_CODES ==
    {"57014", "08006", "08003", "08001", "08004", "08007", "08P01", "40001",
     "40P01", "53300"}

NON_RETRYABLE_ERROR_CODES ==
    {"23505", "23503", "23502", "23514", "42P01", "42703", "42883"}

\* String.prototype.includes
Includes(text, part) ==
    \E i \in 1..(Len(text) - Len(part) + 1) :
       SubSeq(text, i, i + Len(part) - 1) = part

\* the codes of RETRYABLE_ERROR_CODES that stand for a connection failure
ConnectionFailureCodes == {"08006", "08003", "08001", "08004"}

NoError == [name |-> "", code |-> "", message |-> ""]

DbError(code, message) == [name |-> "Error", code |-> code, message |-> message]

\* a timeout error whose message has the word the retry test looks for
TimeoutErrorWithWord(timeout) ==
    [name |-> "DatabaseTimeoutError", code |-> "",
     message |-> "Operation timeout after " \o ToString(timeout) \o "ms"]

\* new DatabaseTimeoutError(`Operation timed out after ${config.timeout}ms`)
DatabaseTimeoutError(timeout) ==
    [name |-> "DatabaseTimeoutError", code |-> "",
     message |-> "Operation timed out after " \o ToString(timeout) \o "ms"]

\* the errors the wrapped operation rejects with
OperationErrors ==
    {DbError("57014", "canceling statement due to statement timeout"),
     DbError("40P01", "deadlock detected"),
     DbError("08006", "connection failure"),
     DbError("", "connection terminated unexpectedly"),
     DbError("", "fetch failed"),
     DbError("23505", "duplicate key value violates unique constraint"),
     DbError("42P01", "relation videos does not exist"),
     DbError("42703", "column timeout does not exist"),
     DbError("PGRST116", "JSON object requested, multiple (or no) rows returned")}

shouldRetryError(error) ==
    IF error = NoError THEN FALSE
    ELSE IF error.code # "" /\ error.code \in RETRYABLE_ERROR_CODES THEN TRUE
    ELSE IF error.message # "" /\ Includes(error.message, "timeout") THEN TRUE
    ELSE IF error.message # "" /\ Includes(error.message, "connection") THEN TRUE
    ELSE FALSE

\* a delay that grows by the same amount at every retry
LinearRetryDelay(attempt) == retryDelay * attempt

\* DATABASE_CONFIG.retryDelay * Math.pow(DATABASE_CONFIG.retryBackoffMultiplier, attempt - 1)
calculateRetryDelay(attempt) == retryDelay * retryBackoffMultiplier ^ (attempt - 1)

DEFAULT_OPTIONS ==
    [retries |-> maxRetries, timeout |-> queryTimeout, retryDelay |-> retryDelay]

\* the options a caller passes: none, one of them, or all three
CallerOptions ==
    {<< >>}
    \cup {[retries |-> r] : r \in 0..MaxRetriesOption}
    \cup {[timeout |-> t] : t \in {5000}}
    \cup {[retryDelay |-> d] : d \in {250}}
    \cup {[retries |-> r, timeout |-> 5000, retryDelay |-> 250] : r \in {1, 2}}

\* config = { ...DEFAULT_OPTIONS, ...options }
MergeOptions(defaults, options) ==
    [k \in DOMAIN defaults |->
        IF k \in DOMAIN options THEN options[k] ELSE defaults[k]]

\* a loop bound that is one invocation short
AttemptAllowedEarly(attempt, retries) == attempt < retries

\* for (let attempt = 0; attempt <= config.retries; attempt++)
AttemptAllowed(attempt, retries) == attempt <= retries

\* shouldRetryError(error) && attempt < config.retries
RetriesAfter(error, attempt, retries) ==
    shouldRetryError(error) /\ attempt < retries

IdleRetry ==
    [pc |-> "idle", config |-> DEFAULT_OPTIONS, attempt |-> 0, calls |-> 0,
     inFlight |-> 0, waits |-> << >>, lastError |-> NoError, failure |-> NoError,
     successes |-> 0, callsAtSuccess |-> 0, thrown |-> NoError,
     response |-> NoResponse, effects |-> 0]

\* the call: the options are merged, the loop starts at attempt 0
ExecuteWithRetry ==
    /\ retry.pc = "idle"
    /\ \E options \in CallerOptions :
         retry' = [IdleRetry EXCEPT !.pc = "loop",
                                    !.config = MergeOptions(DEFAULT_OPTIONS, options)]
    /\ UNCHANGED <<videos, storage, uploads, urlWrites, poll, progress, manual, post, deletion, request, auth, client, remix, fetch, page>>

\* throw lastError || new Error('Database operation failed after all retries')
LoopExitError(lastError) ==
    IF lastError # NoError THEN lastError
    ELSE DbError("", "Database operation failed after all retries")

\* the head of the loop: operation() is invoked and raced against the timeout;
\* after the loop, throw lastError
RetryInvoke ==
    /\ retry.pc = "loop"
    /\ retry' = IF AttemptAllowed(retry.attempt, retry.config.retries)
                THEN [retry EXCEPT !.pc = "race", !.calls = @ + 1,
                                   !.inFlight = @ + 1]
                ELSE [retry EXCEPT !.pc = "thrown",
                                   !.thrown = LoopExitError(retry.lastError)]
    /\ UNCHANGED <<videos, storage, uploads, urlWrites, poll, progress, manual, post, deletion, request, auth, client, remix, fetch, page>>

\* the catch block, entered with the error of this invocation
RetryCaught(call, error) ==
    LET caught == [call EXCEPT !.lastError = error, !.failure = error]
    IN  IF RetriesAfter(error, call.attempt, call.config.retries)
        THEN [caught EXCEPT !.pc = "wait",
                            !.waits = Append(@, calculateRetryDelay(call.attempt + 1))]
        ELSE [caught EXCEPT !.pc = "thrown",
                            !.thrown = error]

\* Promise.race settles: the operation resolves, the operation rejects, or the
\* timeout rejects first and the operation is left running
RetryRace ==
    /\ retry.pc = "race"
    /\ \/ retry' = [retry EXCEPT !.pc = "returned", !.inFlight = @ - 1,
                                 !.successes = @ + 1,
                                 !.callsAtSuccess = retry.calls,
                                 !.effects = @ + 1]
       \/ \E error \in OperationErrors :
            retry' = RetryCaught([retry EXCEPT !.inFlight = @ - 1], error)
       \/ retry' = RetryCaught(retry, DatabaseTimeoutError(retry.config.timeout))
    /\ UNCHANGED <<videos, storage, uploads, urlWrites, poll, progress, manual, post, deletion, request, auth, client, remix, fetch, page>>

\* the backoff wait is over: continue, attempt++
RetryWait ==
    /\ retry.pc = "wait"
    /\ retry' = [retry EXCEPT !.pc = "loop", !.attempt = @ + 1]
    /\ UNCHANGED <<videos, storage, uploads, urlWrites, poll, progress, manual, post, deletion, request, auth, client, remix, fetch, page>>

\* an invocation that lost the race against the timeout settles later,
\* unobserved: it resolves, and its statement has taken effect, or it rejects
RetryAbandoned ==
    /\ retry.inFlight > (IF retry.pc = "race" THEN 1 ELSE 0)
    /\ \E resolved \in BOOLEAN :
         retry' = [retry EXCEPT !.inFlight = @ - 1,
                                !.effects = IF resolved THEN @ + 1 ELSE @]
    /\ UNCHANGED <<videos, storage, uploads, urlWrites, poll, progress, manual, post, deletion, request, auth, client, remix, fetch, page>>

\* the statuses of the endpoints' catch blocks
GatewayTimeout == 504
ServiceUnavailable == 503

\* catch (error): error instanceof Error and error.name select the status
ErrorResponse(error) ==
    IF error.name = "DatabaseTimeoutError" THEN GatewayTimeout
    ELSE IF error.name = "DatabaseConnectionError" THEN ServiceUnavailable
    ELSE ServerError

\* GET /api/videos around fetchVideosOptimized: the list is returned, or the
\* error thrown by the wrapper is caught and mapped to a status
ListVideos ==
    /\ retry.pc \in {"returned", "thrown"}
    /\ retry.response = NoResponse
    /\ retry' = [retry EXCEPT !.response = IF retry.pc = "returned" THEN HttpOk
                                           ELSE ErrorResponse(retry.thrown)]
    /\ UNCHANGED <<videos, storage, uploads, urlWrites, poll, progress, manual, post, deletion, request, auth, client, remix, fetch, page>>

RetryNext ==
    \/ ExecuteWithRetry
    \/ RetryInvoke
    \/ RetryRace
    \/ RetryWait
    \/ RetryAbandoned
    \/ ListVideos

-----------------------------------------------------------------------------
(* The endpoints and the polling task side by side *)

Init ==
    /\ videos = EmptyTable
    /\ storage = {}
    /\ uploads = 0
    /\ urlWrites = 0
    /\ poll = IdleTask
    /\ progress = IdleProgress
    /\ manual = IdleManual
    /\ post = NoResponse
    /\ retry = IdleRetry
    /\ deletion = IdleDeletion
    /\ request = NoRequest
    /\ auth = SignedOut
    /\ client = MountedHook("interval_ref")
    /\ remix = IdleRemix("")
    /\ fetch = IdleFetch
    /\ page = NoPage

Next ==
    \/ GenerateVideo
    \/ PollNext
    \/ ProgressNext
    \/ ManualNext

Spec == Init /\ [][Next]_vars

-----------------------------------------------------------------------------
(* The polling task alone, with the attempt limits of the code *)

InitPoll ==
    /\ videos = [id \in {RecordId} |-> NewRow]
    /\ storage = {}
    /\ uploads = 0
    /\ urlWrites = 0
    /\ \E v \in Variants : poll = StartedTask(v, maxAttempts(v))
    /\ progress = IdleProgress
    /\ manual = IdleManual
    /\ post = HttpOk
    /\ retry = IdleRetry
    /\ deletion = IdleDeletion
    /\ request = Accepted
    /\ auth = SignedOut
    /\ client = MountedHook("interval_ref")
    /\ remix = IdleRemix("")
    /\ fetch = IdleFetch
    /\ page = NoPage

SpecPoll == InitPoll /\ [][PollNext]_vars

\* the runtime resumes every pending await of the task
SpecPollFair == SpecPoll /\ WF_vars(PollNext)

-----------------------------------------------------------------------------
(* The polling task beside deletions of its record *)

InitDelete ==
    /\ videos = [id \in {RecordId} |-> NewRow]
    /\ storage = {}
    /\ uploads = 0
    /\ urlWrites = 0
    /\ \E v \in Variants : poll = StartedTask(v, Capped(maxAttempts(v)))
    /\ progress = IdleProgress
    /\ manual = IdleManual
    /\ post = HttpOk
    /\ retry = IdleRetry
    /\ deletion = IdleDeletion
    /\ request = Accepted
    /\ auth = SignedOut
    /\ client = MountedHook("interval_ref")
    /\ remix = IdleRemix("")
    /\ fetch = IdleFetch
    /\ page = NoPage

NextDelete ==
    \/ PollNext
    \/ DeleteVideo

SpecDelete == InitDelete /\ [][NextDelete]_vars

-----------------------------------------------------------------------------
(* The reading endpoints: the list and the progress of a record in progress *)

InitRead ==
    /\ videos = [id \in {RecordId} |-> NewRow]
    /\ storage = {}
    /\ uploads = 0
    /\ urlWrites = 0
    /\ \E v \in Variants : poll = StartedTask(v, Capped(maxAttempts(v)))
    /\ progress = IdleProgress
    /\ manual = IdleManual
    /\ post = HttpOk
    /\ retry = IdleRetry
    /\ deletion = IdleDeletion
    /\ request = Accepted
    /\ auth = SignedOut
    /\ client = MountedHook("interval_ref")
    /\ remix = IdleRemix("")
    /\ fetch = IdleFetch
    /\ page = NoPage

NextRead ==
    \/ ProgressNext
    \/ RetryNext

SpecRead == InitRead /\ [][NextRead]_vars

-----------------------------------------------------------------------------
(* The browser alone, for every value of the environment variable *)

InitAuth ==
    /\ videos = EmptyTable
    /\ storage = {}
    /\ uploads = 0
    /\ urlWrites = 0
    /\ poll = IdleTask
    /\ progress = IdleProgress
    /\ manual = IdleManual
    /\ post = NoResponse
    /\ retry = IdleRetry
    /\ deletion = IdleDeletion
    /\ request = NoRequest
    /\ \E env \in EnvValues, session \in BOOLEAN : auth = Mounted(env, session)
    /\ client = MountedHook("interval_ref")
    /\ remix = IdleRemix("")
    /\ fetch = IdleFetch
    /\ page = NoPage

SpecAuth == InitAuth /\ [][AuthNext]_vars

-----------------------------------------------------------------------------
(* A table of two records: the polling task, deletions and the sweep *)

\* the rows an earlier job has left
FinishedRows ==
    {[status |-> "completed", video_url |-> DataUrl, error_message |-> ""],
     [status |-> "failed", video_url |-> "", error_message |-> NoDetailsText]}

InitRemove ==
    /\ \E row \in FinishedRows :
         videos = [id \in {RecordId, OtherId} |->
                     IF id = RecordId THEN NewRow ELSE row]
    /\ storage = {}
    /\ uploads = 0
    /\ urlWrites = 0
    /\ \E v \in Variants : poll = StartedTask(v, Capped(maxAttempts(v)))
    /\ progress = IdleProgress
    /\ manual = IdleManual
    /\ post = HttpOk
    /\ retry = IdleRetry
    /\ deletion = IdleDeletion
    /\ request = Accepted
    /\ auth = SignedOut
    /\ client = MountedHook("interval_ref")
    /\ remix = IdleRemix("")
    /\ fetch = IdleFetch
    /\ page = NoPage

NextRemove ==
    \/ PollNext
    \/ DeleteVideo
    \/ CleanupOldFailedVideos

SpecRemove == InitRemove /\ [][NextRemove]_vars

-----------------------------------------------------------------------------
(* The polling hook alone, in each of its versions *)

InitClient ==
    /\ videos = EmptyTable
    /\ storage = {}
    /\ uploads = 0
    /\ urlWrites = 0
    /\ poll = IdleTask
    /\ progress = IdleProgress
    /\ manual = IdleManual
    /\ post = NoResponse
    /\ retry = IdleRetry
    /\ deletion = IdleDeletion
    /\ request = NoRequest
    /\ auth = SignedOut
    /\ \E version \in HookVersions : client = MountedHook(version)
    /\ remix = IdleRemix("")
    /\ fetch = IdleFetch
    /\ page = NoPage

SpecClient == InitClient /\ [][ClientNext]_vars

\* the hook from its mount to the unmount of its component
NextClientLife ==
    \/ ClientNext
    \/ Unmount

SpecClientLife == InitClient /\ [][NextClientLife]_vars

\* an interval that is set fires every period, and every request settles
SpecClientFair ==
    SpecClient /\ WF_vars(TimerFires) /\ WF_vars(FetchProgressSettles)

-----------------------------------------------------------------------------
(* The remix endpoint and the task it starts, under each provider setting *)

InitRemix ==
    /\ videos = EmptyTable
    /\ storage = {}
    /\ uploads = 0
    /\ urlWrites = 0
    /\ poll = IdleTask
    /\ progress = IdleProgress
    /\ manual = IdleManual
    /\ post = NoResponse
    /\ retry = IdleRetry
    /\ deletion = IdleDeletion
    /\ request = NoRequest
    /\ auth = SignedOut
    /\ client = MountedHook("interval_ref")
    /\ \E env \in ProviderEnvValues : remix = IdleRemix(env)
    /\ fetch = IdleFetch
    /\ page = NoPage

NextRemix ==
    \/ RemixVideo
    \/ PollNext

SpecRemix == InitRemix /\ [][NextRemix]_vars

-----------------------------------------------------------------------------
(* Manual fetches running at the same time, beside the generation endpoints *)

InitFetch ==
    /\ videos = EmptyTable
    /\ storage = {}
    /\ uploads = 0
    /\ urlWrites = 0
    /\ poll = IdleTask
    /\ progress = IdleProgress
    /\ manual = IdleManual
    /\ post = NoResponse
    /\ retry = IdleRetry
    /\ deletion = IdleDeletion
    /\ request = NoRequest
    /\ auth = SignedOut
    /\ client = MountedHook("interval_ref")
    /\ remix = IdleRemix("")
    /\ fetch = IdleFetch
    /\ page = NoPage

SpecFetch == InitFetch /\ [][FetchNext]_vars

-----------------------------------------------------------------------------
(* Every writer of the record beside deletions of it *)

\* a record in progress whose task has one attempt left
InitGone ==
    /\ videos = [id \in {RecordId} |-> NewRow]
    /\ storage = {}
    /\ uploads = 0
    /\ urlWrites = 0
    /\ \E v \in Variants : poll = StartedTask(v, LastAttempts)
    /\ progress = IdleProgress
    /\ manual = IdleManual
    /\ post = HttpOk
    /\ retry = IdleRetry
    /\ deletion = IdleDeletion
    /\ request = Accepted
    /\ auth = SignedOut
    /\ client = MountedHook("interval_ref")
    /\ remix = IdleRemix("")
    /\ fetch = IdleFetch
    /\ page = NoPage

\* the task and the deletions run beside one call of an endpoint at a time
NextGone ==
    \/ PollNext
    \/ manual.pc = "idle" /\ ProgressNext
    \/ progress.pc = "idle" /\ ManualNext
    \/ DeleteVideo

SpecGone == InitGone /\ [][NextGone]_vars

\* the runtime resumes every pending await of the task
SpecGoneFair == SpecGone /\ WF_vars(PollNext)

-----------------------------------------------------------------------------
(* The page's list while the hook reports the ends of jobs *)

\* the list as loaded from the table: two videos in progress
InitPage ==
    /\ videos = EmptyTable
    /\ storage = {}
    /\ uploads = 0
    /\ urlWrites = 0
    /\ poll = IdleTask
    /\ progress = IdleProgress
    /\ manual = IdleManual
    /\ post = NoResponse
    /\ retry = IdleRetry
    /\ deletion = IdleDeletion
    /\ request = NoRequest
    /\ auth = SignedOut
    /\ client = MountedHook("interval_ref")
    /\ remix = IdleRemix("")
    /\ fetch = IdleFetch
    /\ \E prompt \in {"a cat", "a dog"}, model \in {"sora-2", "sora-2-pro"},
          creation_type \in {"standard", "remix"} :
         LET loaded == [id \in VideoIds |->
                           IF id = RecordId
                           THEN VideoRow(id, prompt, model, creation_type, 1)
                           ELSE VideoRow(id, "a bird", "sora-2", "standard", 2)]
         IN  page = [NoPage EXCEPT !.videos = loaded, !.rows = loaded]

SpecPage == InitPage /\ [][PageNext]_vars

-----------------------------------------------------------------------------
(* One call of executeWithRetry *)

SpecRetry == Init /\ [][RetryNext]_vars

-----------------------------------------------------------------------------
(* Properties of the record *)

\* C1: once the persisted status is completed or failed, no step changes it to a
\* different value.
StatusStaysTerminal ==
    [][(RecordId \in DOMAIN videos
        /\ videos[RecordId].status \in {"completed", "failed"})
       => videos'[RecordId].status = videos[RecordId].status]_vars

\* C2: no step of any handler takes an existing record whose status is completed
\* or failed back to in_progress.
NeverBackToInProgress ==
    [][(RecordId \in DOMAIN videos /\ videos[RecordId].status # "in_progress")
       => videos'[RecordId].status # "in_progress"]_vars

\* the record is failed after both the manual check and the timed-out task wrote it
WroteOnTerminalRecord ==
    /\ RecordId \in DOMAIN videos
    /\ videos[RecordId].status = "failed"
    /\ videos[RecordId].error_message # ""
    /\ poll.pc = "done"
    /\ poll.exit = "timeout"
    /\ manual.pc = "responded"
    /\ manual.reply = Reply(HttpOk, "failed")

\* C3: every persisted record with status completed has a non-empty video_url.
CompletedHasVideoUrl ==
    \A id \in DOMAIN videos :
       videos[id].status = "completed" => videos[id].video_url # ""

\* C4: video_url is written at most once over the record's lifetime.
VideoUrlWrittenOnce == urlWrites <= 1

-----------------------------------------------------------------------------
(* Properties of the polling task *)

TimeoutAfterMaxAttempts ==
    /\ [](poll.pc = "done" /\ poll.heard = {"not_ok"} =>
             /\ poll.exit = "timeout"
             /\ poll.requests = poll.maxAttempts
             /\ poll.waits = poll.maxAttempts
             /\ videos[RecordId].error_message = NewRow.error_message
             /\ videos[RecordId].video_url = NewRow.video_url)
    /\ [][(poll.pc = "loop" /\ poll'.pc = "done" /\ poll'.heard = {"not_ok"}) =>
             \/ videos' = [videos EXCEPT ![RecordId].status = "failed"]
             \/ videos' = videos /\ videos[RecordId].status = "in_progress"]_vars

\* the remix task gave up after 60 non-OK answers and the record is failed
TimedOutAfterSixty ==
    /\ poll.pc = "done"
    /\ poll.variant = "remix"
    /\ poll.heard = {"not_ok"}
    /\ poll.requests = 60
    /\ videos[RecordId].status = "failed"

\* C7: the loop runs at most maxAttempts iterations (60, 150 or 600), every
\* iteration ends the loop or adds one to the attempt counter, and the task
\* eventually stops.
PollingTerminates ==
    /\ [](/\ poll.maxAttempts =
               (CASE poll.variant = "remix" -> 60
                  [] poll.variant = "provider" -> 150
                  [] poll.variant = "openai" -> 600)
          /\ poll.attempts <= poll.maxAttempts
          /\ poll.waits <= poll.maxAttempts)
    /\ [][(poll.pc = "loop" /\ poll' # poll) =>
             \/ poll'.pc # "loop"
             \/ poll'.pc = "loop" /\ poll'.attempts = poll.attempts + 1]_vars
    /\ <>(poll.pc = "done")

\* the longest run: 600 iterations, then the task stopped
StoppedAfterSixHundred ==
    /\ poll.pc = "done"
    /\ poll.variant = "openai"
    /\ poll.waits = 600
    /\ poll.attempts = 600

\* C8: when the provider reports the job failed, the polling task and the manual
\* check write status failed with a non-empty error_message (code and message of
\* the error object, the failure text or the placeholder), and the task makes
\* no further status request.
ProviderFailureStored ==
    [][/\ (poll.pc = "loop" /\ poll'.exit = "provider_failed") =>
             /\ poll'.pc = "done"
             /\ \/ videos' = videos
                \/ /\ videos'[RecordId].status = "failed"
                   /\ videos'[RecordId].error_message \in
                         {"No error details provided", "content policy",
                          "render failed", "unknown_error: Unknown error occurred",
                          "moderation_blocked: Blocked by moderation"}
                   /\ videos'[RecordId].video_url = videos[RecordId].video_url
       /\ poll.exit = "provider_failed" => poll'.requests = poll.requests
       /\ (manual.pc = "status" /\ manual'.reply = Reply(HttpOk, "failed")) =>
             /\ videos'[RecordId].status = "failed"
             /\ videos'[RecordId].error_message \in
                   {"No error details provided", "content policy",
                    "render failed", "unknown_error: Unknown error occurred",
                    "moderation_blocked: Blocked by moderation"}]_vars

\* the task stored the code and message of the provider's error object
StoredProviderError ==
    /\ poll.pc = "done"
    /\ poll.exit = "provider_failed"
    /\ videos[RecordId].status = "failed"
    /\ videos[RecordId].error_message = "moderation_blocked: Blocked by moderation"

\* C9: the endpoint's response is fixed before the task's first status request
\* and no step of the task changes it; an exception inside the task ends in the
\* outer catch, which only tries to set the record to failed and lets nothing
\* escape.
FireAndForget ==
    /\ [](poll.requests > 0 => post = HttpOk)
    /\ [](~poll.escaped)
    /\ [][poll.pc # "idle" => post' = post]_vars
    /\ [][(poll.pc = "catch" /\ poll' # poll) =>
             /\ poll'.pc = "done"
             /\ \/ videos' = videos
                \/ videos' = [videos EXCEPT ![RecordId].status = "failed"]]_vars

\* a provider call threw and the write of the outer catch failed too
CatchWriteFailed ==
    /\ poll.pc = "done"
    /\ poll.exit = "exception"
    /\ poll.requests = 1
    /\ videos[RecordId].status = "in_progress"
    /\ post = HttpOk

\* C22: a non-OK answer to a status request adds one to the attempt counter
\* and leaves the record as it was; every iteration waits the same 5000 ms, so
\* after answers that were all non-OK or pending the counter equals the number
\* of requests, the time waited is 5000 ms per request and the record is still
\* as inserted.
NotOkCountsOneAttempt ==
    /\ [](poll.elapsed = 5000 * poll.waits)
    /\ []((poll.pc = "loop" /\ poll.heard \subseteq {"not_ok", "pending"}) =>
             /\ poll.attempts = poll.requests
             /\ poll.waits = poll.requests
             /\ videos[RecordId] = NewRow)
    /\ [][(poll.pc = "loop" /\ "not_ok" \notin poll.heard /\ "not_ok" \in poll'.heard) =>
             /\ poll'.pc = "loop"
             /\ poll'.attempts = poll.attempts + 1
             /\ poll'.elapsed = poll.elapsed + 5000
             /\ videos' = videos]_vars
    /\ [][(poll.pc = "loop" /\ poll'.pc = "loop" /\ poll' # poll) =>
             /\ poll'.attempts = poll.attempts + 1
             /\ poll'.requests = poll.requests + 1
             /\ poll'.elapsed = poll.elapsed + 5000
             /\ videos' = videos]_vars

\* three non-OK answers in a row: three attempts counted, 15 s waited, the
\* record untouched and the task still polling
ThreeNotOkAnswers ==
    /\ poll.pc = "loop"
    /\ poll.heard = {"not_ok"}
    /\ poll.requests = 3
    /\ poll.attempts = 3
    /\ poll.elapsed = 15000
    /\ videos[RecordId] = NewRow

\* C23: while attempts remain and the provider has reported neither success
\* nor failure, the task is still in its loop and the record is in_progress,
\* also after a status request that was rejected.
RejectedRequestIsRetried ==
    (poll.heard \cap {"succeeded", "failed"} = {}
     /\ poll.attempts < poll.maxAttempts)
    => /\ poll.pc = "loop"
       /\ videos[RecordId].status = "in_progress"

\* C24: in the variants that upload to storage the task reaches the download
\* only from the final status lookup, the upload only from the download and the
\* write of completed only from an accepted upload; the record becomes
\* completed in that write alone, with the URL of the uploaded object.  A task
\* that ends in any other way has issued an update to failed (the record is
\* failed unless the database refused the update) and video_url is still empty.
CompletedOnlyAfterUpload ==
    /\ [][(UsesStorage(poll.variant) /\ poll'.pc = "content") =>
             poll.pc = "final"]_vars
    /\ [][(UsesStorage(poll.variant) /\ poll'.pc = "upload") =>
             poll.pc = "content"]_vars
    /\ [][(UsesStorage(poll.variant) /\ poll'.pc = "write" /\ poll.pc # "write") =>
             /\ poll.pc = "upload"
             /\ uploads' = uploads + 1
             /\ poll'.videoUrl = PublicUrl(FilePath(JobId, uploads'))
             /\ FilePath(JobId, uploads') \in storage']_vars
    /\ [][(UsesStorage(poll.variant)
           /\ videos'[RecordId].status = "completed"
           /\ videos[RecordId].status # "completed") =>
             /\ poll.pc = "write"
             /\ poll'.exit = "stored"
             /\ videos'[RecordId].video_url = poll.videoUrl
             /\ videos'[RecordId].video_url # ""]_vars
    /\ [][(UsesStorage(poll.variant)
           /\ poll'.pc = "done" /\ poll.pc # "done" /\ poll'.exit # "stored") =>
             /\ \/ videos'[RecordId].status = "failed"
                \/ videos' = videos
             /\ videos'[RecordId].status # "completed"
             /\ videos'[RecordId].video_url = ""]_vars
    /\ []((UsesStorage(poll.variant) /\ poll.pc = "done" /\ poll.exit # "stored") =>
             /\ videos[RecordId].status \in {"failed", "in_progress"}
             /\ videos[RecordId].video_url = "")
    /\ []((UsesStorage(poll.variant) /\ poll.exit = "stored") =>
             /\ poll.requests = poll.waits + 1
             /\ uploads = 1)

\* the upload was refused after a successful lookup and download: the record is
\* failed, with the upload's message and no video_url
FailedAtUpload ==
    /\ poll.variant = "provider"
    /\ poll.pc = "done"
    /\ poll.exit = "upload_failed"
    /\ poll.requests = poll.waits + 1
    /\ uploads = 0
    /\ videos[RecordId].status = "failed"
    /\ videos[RecordId].video_url = ""
    /\ videos[RecordId].error_message = UploadFailureMessage(StorageErrorMessage)

-----------------------------------------------------------------------------
(* Properties of the retry wrapper *)

\* C10: the operation is invoked at most retries+1 times (4 by default) and at
\* least once; after the first success it is not invoked again; an error thrown
\* is the error of the last invocation.
RetryBounded ==
    /\ retry.calls <= retry.config.retries + 1
    /\ retry.config = DEFAULT_OPTIONS => retry.calls <= 4
    /\ retry.attempt <= retry.config.retries
    /\ retry.successes <= 1
    /\ retry.successes = 1 <=> retry.pc = "returned"
    /\ retry.pc = "returned" => retry.calls = retry.callsAtSuccess
    /\ retry.pc \in {"returned", "thrown"} => retry.calls >= 1
    /\ retry.pc = "thrown" =>
          /\ retry.thrown # NoError
          /\ retry.thrown = retry.failure

\* the fourth invocation under the default configuration failed and its error
\* was thrown
ThrownAfterFourCalls ==
    /\ retry.pc = "thrown"
    /\ retry.config = DEFAULT_OPTIONS
    /\ retry.calls = 4
    /\ Len(retry.waits) = 3
    /\ retry.thrown = DbError("40P01", "deadlock detected")

\* C11: an invocation that fails with a non-retryable code (a constraint
\* violation, a schema error) ends the call: its error is thrown at once, with
\* no wait and no further invocation.
NonRetryableThrownAtOnce ==
    retry.failure.code \in NON_RETRYABLE_ERROR_CODES =>
       /\ retry.pc = "thrown"
       /\ retry.thrown = retry.failure

\* C12: an invocation that lost the race against the wrapper's timeout is
\* retried as long as attempts remain: its error is not thrown.
TimeoutIsRetried ==
    (retry.failure.name = "DatabaseTimeoutError"
     /\ retry.attempt < retry.config.retries)
    => retry.pc # "thrown"

\* C13: with the default delay the wait before the k-th retry is 1000 * 2^(k-1)
\* ms (1000, 2000, 4000 with three retries); every wait lies between two
\* invocations: none before the first, none after the last failure.
BackoffGrows ==
    /\ retry.config.retryDelay = 1000 =>
          \A k \in 1..Len(retry.waits) : retry.waits[k] = 1000 * 2 ^ (k - 1)
    /\ retry.config = DEFAULT_OPTIONS =>
          retry.waits \in {<< >>, <<1000>>, <<1000, 2000>>, <<1000, 2000, 4000>>}
    /\ retry.calls = 0 => retry.waits = << >>
    /\ retry.calls > 0 =>
          Len(retry.waits) = IF retry.pc \in {"wait", "loop"}
                             THEN retry.calls ELSE retry.calls - 1
    /\ retry.pc = "thrown" => Len(retry.waits) = retry.calls - 1

\* three retries under the default configuration, all failed
WaitedThreeTimes ==
    /\ retry.pc = "thrown"
    /\ retry.config = DEFAULT_OPTIONS
    /\ retry.calls = 4
    /\ retry.waits = <<1000, 2000, 4000>>

\* C14: the list endpoint answers 504 when the wrapped operation finally failed
\* because of a timeout, 503 when it finally failed because of a database
\* connection failure, and 500 for any other failure.
FailureStatusDistinguished ==
    (retry.pc = "thrown" /\ retry.response # NoResponse) =>
       retry.response =
          IF retry.thrown.name = "DatabaseTimeoutError" THEN GatewayTimeout
          ELSE IF \/ retry.thrown.code \in ConnectionFailureCodes
                  \/ Includes(retry.thrown.message, "connection")
               THEN ServiceUnavailable
          ELSE ServerError

\* C17: a record with a non-empty error_message has status failed.
ErrorMessageOnlyOnFailure ==
    RecordId \in DOMAIN videos =>
       (videos[RecordId].error_message # "" => videos[RecordId].status = "failed")

-----------------------------------------------------------------------------
(* Properties of the generation and remix endpoints *)

\* C16: a record exists and a polling task runs only when the prompt was given,
\* the provider answered OK with a job id and the insert succeeded; otherwise
\* there is no record and no task.  The record is created as in_progress with
\* empty video_url and error_message, in the same step the task is started, and
\* the task has issued no request yet.
RecordOnlyAfterJobId ==
    /\ []((RecordId \in DOMAIN videos \/ poll.pc # "idle") =>
             /\ request.promptOk
             /\ request.answer = "job"
             /\ request.insert = "ok"
             /\ post = HttpOk)
    /\ []((~request.promptOk \/ request.answer \in {"not_ok", "no_id", "reject"}) =>
             /\ videos = EmptyTable
             /\ poll = IdleTask)
    /\ [][(RecordId \notin DOMAIN videos /\ RecordId \in DOMAIN videos') =>
             /\ videos'[RecordId] =
                   [status |-> "in_progress", video_url |-> "", error_message |-> ""]
             /\ poll.pc = "idle"
             /\ poll'.pc = "loop"
             /\ poll'.requests = 0]_vars
    /\ [][(poll.pc = "idle" /\ poll'.pc # "idle") =>
             /\ RecordId \notin DOMAIN videos
             /\ RecordId \in DOMAIN videos']_vars

\* the provider returned a job id, the row was inserted and the task was started
RecordCreatedForJob ==
    /\ request = Accepted
    /\ post = HttpOk
    /\ RecordId \in DOMAIN videos
    /\ videos[RecordId] = NewRow
    /\ poll.pc = "loop"
    /\ poll.requests = 0

-----------------------------------------------------------------------------
(* Properties of deletion *)

RemovedOnlyByDelete ==
    /\ [][\A id \in DOMAIN videos : id \notin DOMAIN videos' =>
             /\ \/ /\ deletion.pc = "found"
                   /\ deletion.id = id
                   /\ deletion'.response = HttpOk
                   /\ DOMAIN videos' = DOMAIN videos \ {id}
                \/ /\ deletion.pc = deletion'.pc
                   /\ deletion'.swept >= 1
                   /\ videos[id].status = "failed"
             /\ \A other \in DOMAIN videos' : videos'[other] = videos[other]]_vars
    /\ [][(deletion.pc = "found" /\ deletion'.response = HttpOk) =>
             /\ DOMAIN videos' = DOMAIN videos \ {deletion.id}
             /\ \A other \in DOMAIN videos' : videos'[other] = videos[other]]_vars
    /\ [][(deletion.pc = "idle" /\ deletion' # deletion
           /\ deletion'.swept = deletion.swept /\ deletion'.id # ""
           /\ deletion'.id \notin DOMAIN videos) =>
             /\ deletion'.pc = "idle"
             /\ deletion'.response = NotFound
             /\ videos' = videos]_vars
    /\ [][(deletion' # deletion /\ deletion'.swept = deletion.swept
           /\ deletion'.response = NotFound) => videos' = videos]_vars
    /\ [][(deletion.pc = "idle" /\ deletion'.pc = "found") =>
             deletion'.id \in DOMAIN videos]_vars

\* the second record was deleted on request and the first is as it was created
DeletedTheOtherRecord ==
    /\ deletion.response = HttpOk
    /\ deletion.id = OtherId
    /\ OtherId \notin DOMAIN videos
    /\ RecordId \in DOMAIN videos
    /\ videos[RecordId] = NewRow

-----------------------------------------------------------------------------
(* Properties of the reading endpoints *)

\* C18 as stated: the list endpoint and the progress endpoint leave the record
\* unchanged.
ReadersLeaveRecord == [][videos' = videos]_vars

\* C18: the list endpoint leaves the record unchanged; the progress endpoint
\* changes it only in a call that read it as in_progress and downloaded, or fell
\* back, after the provider reported success: it sets status completed, with
\* the video_url it obtained or with none, and leaves error_message as it was.
ReadersWriteOnlyOnSuccess ==
    /\ [][retry' # retry => videos' = videos]_vars
    /\ [][videos' # videos =>
             /\ progress.pc \in {"write", "fallback"}
             /\ progress.video.status = "in_progress"
             /\ progress.video.video_url = ""
             /\ videos'[RecordId].status = "completed"
             /\ videos'[RecordId].video_url \in
                   {videos[RecordId].video_url, progress.videoUrl}
             /\ videos'[RecordId].error_message = videos[RecordId].error_message
             /\ progress'.pc = "responded"]_vars

\* a progress call has set the record to completed and the list endpoint has
\* answered beside it
ProgressCompletedRecord ==
    /\ videos[RecordId].status = "completed"
    /\ videos[RecordId].video_url # ""
    /\ progress.pc = "responded"
    /\ progress.reply = Reply(HttpOk, "completed")
    /\ retry.response = HttpOk

\* C19: the status in a 200 response of the progress endpoint is the record's
\* persisted status at the moment the response is produced.
ReturnedStatusIsPersisted ==
    (progress.pc = "responded" /\ progress.reply.code = HttpOk) =>
       progress.reply.status = videos[RecordId].status

-----------------------------------------------------------------------------
(* Properties of authentication *)

\* C20: unless NEXT_PUBLIC_AUTH_ENABLED is 'false', the home page loads the
\* video list and shows the main application only for an authenticated user,
\* and the login page does not redirect to the application.
AuthRequiredByDefault ==
    auth.env # "false" =>
       /\ ~auth.listedAnonymous
       /\ ~auth.shownAnonymous
       /\ ~auth.redirected

-----------------------------------------------------------------------------
(* Properties of the polling hook *)

\* C25: a video that is in progress in the current list is eventually
\* requested, again and again for as long as it stays in progress, also when it
\* was added, or the list was replaced, while polling was running.
InProgressVideoIsPolled ==
    \A id \in VideoIds :
       []((id \in InProgress(client.videos)) =>
             <>(id \in client.inflight \/ id \notin InProgress(client.videos)))

\* C26: a firing of the timer requests only videos that are in progress in the
\* current list, and no timer is set while the list has no video in progress.
TimerPollsOnlyInProgress ==
    /\ [][client'.tick # client.tick =>
             client'.sent \subseteq InProgress(client.videos)]_vars
    /\ [](InProgress(client.videos) = {} => ~client.timer.on)

-----------------------------------------------------------------------------
(* Properties of the manual status check *)

\* C27: a manual check called for a record whose status is completed or failed
\* ends at once with 400 and the record's status (404 when the select itself
\* fails), without a provider request and without a write; called for an id
\* that is not in the table it answers 404.
ManualActsOnlyOnInProgress ==
    [][(manual.pc = "idle" /\ manual'.pc # "idle") =>
          /\ (RecordId \in DOMAIN videos
               /\ videos[RecordId].status \in {"completed", "failed"}) =>
                 /\ manual'.pc = "responded"
                 /\ manual'.reply \in {Reply(BadRequest, videos[RecordId].status),
                                      Reply(NotFound, "")}
                 /\ videos' = videos
                 /\ urlWrites' = urlWrites
          /\ RecordId \notin DOMAIN videos =>
                 /\ manual' = Responded(IdleManual, Reply(NotFound, ""))
                 /\ videos' = videos
          /\ manual'.pc = "status" =>
                 /\ RecordId \in DOMAIN videos
                 /\ videos[RecordId].status = "in_progress"]_vars

\* a manual check was refused for a finished record
ManualRefusedFinished ==
    /\ manual.pc = "responded"
    /\ manual.reply.code = BadRequest
    /\ manual.reply.status \in {"completed", "failed"}
-----------------------------------------------------------------------------
(* Properties of the remix endpoint *)

\* C28: with AI_PROVIDER = azure a remix request ends without a request to a
\* provider, without an inserted record and without a started task, and its
\* answer is 400 (500 only when the body is not JSON).
AzureRemixRefused ==
    [][(remix.provider = "azure" /\ remix' # remix) =>
          /\ remix'.parsed => remix'.response = BadRequest
          /\ ~remix'.parsed => remix'.response = ServerError
          /\ ~remix'.asked
          /\ ~remix'.inserted
          /\ videos' = videos
          /\ poll' = poll]_vars

\* a well-formed remix request was refused under the Azure provider
AzureRemixAnswered ==
    /\ remix.provider = "azure"
    /\ remix.parsed
    /\ remix.response = BadRequest
    /\ poll.pc = "idle"
    /\ videos = EmptyTable

-----------------------------------------------------------------------------
(* Properties of the manual fetch *)

\* C29: the table never holds two rows with the same video_id, also when manual
\* fetches of one id run at the same time; and a manual fetch whose select
\* returned an existing record answers 200 in that step, never asks the
\* provider, uploads nothing and inserts nothing.
OneRecordPerVideoId ==
    /\ [](\A r1, r2 \in fetch.rows : r1.video_id = r2.video_id => r1 = r2)
    /\ [](\A c \in Callers :
            /\ fetch.calls[c].existing # NoRow =>
                  /\ fetch.calls[c].pc = "responded"
                  /\ fetch.calls[c].response = HttpOk
                  /\ ~fetch.calls[c].asked
                  /\ fetch.calls[c].inserted = ""
            /\ fetch.calls[c].asked =>
                  fetch.calls[c].existing = NoRow)
    /\ [][\A c \in Callers :
            (fetch.calls[c].pc = "idle" /\ fetch'.calls[c].existing # NoRow) =>
               /\ fetch'.calls[c].existing \in fetch.rows
               /\ fetch'.calls[c].existing.video_id = fetch'.calls[c].videoId
               /\ fetch'.rows = fetch.rows
               /\ storage' = storage]_vars

\* two manual fetches of one id ran at the same time: one inserted the record,
\* the other was refused by the table
ConcurrentFetchRefused ==
    /\ fetch.calls[1].inserted = "ok"
    /\ fetch.calls[2].inserted = "conflict"
    /\ fetch.calls[1].videoId = fetch.calls[2].videoId

-----------------------------------------------------------------------------
(* Properties of the invocations of one executeWithRetry call *)

-----------------------------------------------------------------------------
(* Properties of the writers after a deletion *)

\* C31: once the record is deleted no step of the polling task, the progress
\* endpoint or the manual check puts it back into the table, and the polling
\* task of a deleted record still comes to its end.
DeletedStaysDeleted ==
    /\ [][RecordId \notin DOMAIN videos => RecordId \notin DOMAIN videos']_vars
    /\ (RecordId \notin DOMAIN videos) ~> (poll.pc = "done")

\* the record was deleted while the loop ran, the provider then reported the
\* job failed, and the task ended after its write found no row
WroteAfterDeletion ==
    /\ deletion.deleted
    /\ deletion.running
    /\ RecordId \notin DOMAIN videos
    /\ poll.pc = "done"
    /\ "failed" \in poll.heard
-----------------------------------------------------------------------------
(* Properties of the storage bucket *)

\* C32: whenever the polling task has ended and no call of the progress
\* endpoint or the manual check is under way, the bucket holds at most one blob
\* of the job and every blob is the video_url of the existing record.
BlobsAreReferenced ==
    (poll.pc = "done" /\ progress.pc = "idle" /\ manual.pc = "idle") =>
        /\ Cardinality(storage) <= 1
        /\ \A path \in storage :
              /\ RecordId \in DOMAIN videos
              /\ videos[RecordId].video_url = PublicUrl(path)
-----------------------------------------------------------------------------
(* Properties of handleVideoUpdate *)

\* C33: when the hook reports a terminal status for a video, the entries of the
\* other videos stay as they are and the entry of the video keeps its prompt,
\* video_id, model, creation_type and created_at.
TerminalReportKeepsEntry ==
    [][page'.tick # page.tick =>
          \A r \in DOMAIN page.videos :
             /\ r \in DOMAIN page'.videos
             /\ r # page'.reported => page'.videos[r] = page.videos[r]
             /\ r = page'.reported =>
                   \A f \in {"prompt", "video_id", "model", "creation_type",
                             "created_at"} :
                      page'.videos[r][f] = page.videos[r][f]]_vars

-----------------------------------------------------------------------------
(* Properties of the hook's interval *)

\* C34: an instance of the hook never has two active intervals, and none is
\* active once its component is unmounted.
OneTimerUntilUnmount ==
    /\ client.live <= 1
    /\ ~client.mounted => client.live = 0
-----------------------------------------------------------------------------
(* Properties of the options of executeWithRetry *)

\* C35: the options of the caller are the ones the call works with: the
\* operation is invoked at most retries + 1 times, a timeout is the one of the
\* timeout option, and the wait before the k-th retry is retryDelay * 2^(k-1)
\* with the caller's retryDelay.
OptionsOverrideDefaults ==
    /\ retry.calls <= retry.config.retries + 1
    /\ retry.thrown.name = "DatabaseTimeoutError" =>
          retry.thrown = DatabaseTimeoutError(retry.config.timeout)
    /\ \A k \in 1..Len(retry.waits) :
          retry.waits[k] = retry.config.retryDelay * 2 ^ (k - 1)
====
